---- MODULE Spec2Model ----
(***************************************************************************)
(* Model of the two-timeframe SMA/RSI trading harness: the strategy state  *)
(* machine (strategy/multi_timeframe_strategy.py), the replay driver       *)
(* (execution/backtest_engine.py) and the polling driver                   *)
(* (execution/live_engine.py).                                             *)
(*                                                                         *)
(* Prices are positive integers.  A pandas float column is modelled as a   *)
(* sequence of exact rationals with a NaN element; floating-point rounding *)
(* is not modelled.  Code index i (0-based) is element i+1 of a sequence.  *)
(* Time is counted in primary candles: primary bar i opens at i and closes *)
(* at i+1; secondary bar j opens at j*Ratio and closes at (j+1)*Ratio.     *)
(***************************************************************************)
EXTENDS Integers, Sequences, FiniteSets, TLC

\* ---------------------------------------------------------------- bounds
\* closes are 1..MaxPrice
MaxPrice == 2
\* rows of a primary frame handed to the strategy (SpecSignal, live answers)
MaxBars == 4
\* rows of a secondary frame handed to the strategy (SpecSignal, live answers)
MaxSecBars == 3
\* rows of the primary history a replay runs over
MaxHistory == 6
\* the live clock stops advancing here
MaxTime == 2
\* largest max_trades passed to start()
MaxTrades == 2
\* largest trade_quantity
MaxQuantity == 1
\* orders the exchange accepts before it rejects every order
MaxOrders == 2
\* orders one engine places over its sessions in the ledger specification
MaxLedgerOrders == 3
\* largest timestamp in a trades file, in candles
MaxStamp == 1
\* most records in the backtest trades file
MaxBacktestRows == 3
\* most records in the live trades file
MaxLiveRows == 2
\* largest candle_window of a TradeValidator, in candles
MaxWindow == 1
\* longest historical range asked for, in primary candles
MaxRange == 7
\* candles the exchange returns per klines request (limit=1000 in the code)
BatchLimit == 2
\* largest time (ms) of a range paged through with an arbitrary provider
MaxPageRange == 4
\* records per ledger and latest timestamp where the matcher's count is compared
\* with the largest pairing
MaxPairRows == 2
MaxPairStamp == 2
\* last bar of a history given to BacktestEngine.run, and round trips in one run
MaxRunTime == 3
MaxRoundTrips == 2

\* SECONDARY_TIMEFRAME / PRIMARY_TIMEFRAME = '3m' / '1m'
Ratio == 3

\* get_latest_multi_timeframe_data(primary_limit=100, secondary_limit=100)
primary_limit == 100
secondary_limit == 100

Prices == 1..MaxPrice
Signals == {"BUY", "SELL", "HOLD"}

\* Strategy parameter sets the model is run with (constructor arguments of
\* MultiTimeframeStrategy).  The second has rsi_period > slow_sma_period + 1,
\* as the defaults (14 and 10) have.
Configs ==
    { [fast_sma |-> 1, slow_sma |-> 2, trend_sma |-> 2, rsi_period |-> 2, rsi_overbought |-> 70],
      [fast_sma |-> 1, slow_sma |-> 2, trend_sma |-> 2, rsi_period |-> 4, rsi_overbought |-> 70],
      [fast_sma |-> 2, slow_sma |-> 3, trend_sma |-> 1, rsi_period |-> 2, rsi_overbought |-> 40] }

VARIABLES
    params,        \* strategy: fast_sma, slow_sma, trend_sma, rsi_period, rsi_overbought
    position,      \* strategy.position: "NONE" (Python None) or "LONG"
    entry_price,   \* strategy.entry_price: 0 stands for None
    df_primary,    \* close column of the primary history
    df_secondary,  \* close column of the secondary history
    primary_idx,   \* the driver's local primary_idx; -1 outside an evaluation
    secondary_idx, \* the driver's local secondary_idx; -1 outside an evaluation
    signal,        \* the driver's local signal; "NA" outside an evaluation
    mode,          \* which program runs: "signal", "replay", "live", "parity", "wait",
                   \* "ledger", "match", "fetch", "page", "runs"
    pc,            \* where the driver is: "idle", "run" (replay), "loop", "sleep", "iter" (live),
                   \* "woke" (wait), "compared" (parity), "returned", "raised" (match),
                   \* "primary", "secondary", "backtest", "aborted" (fetch),
                   \* "primary", "secondary", "returned" (page)
    sec_first,     \* open time of the first secondary row, in secondary candles
    primary_ts,    \* df_primary.index[primary_idx] of the latest evaluation
    secondary_ts,  \* df_secondary.index[secondary_idx] of the latest evaluation
    bar,           \* replay: len(self.data), the rows revealed so far; parity: the bar compared
    bt_position,   \* replay: the harness holds an open position (self.position)
    bt_order,      \* replay: the order the harness fills at the next step
    applied,       \* the non-HOLD signals the driver applied in this session, in order
    is_running,    \* live: self.is_running
    trades,        \* live: self.trades
    trade_count,   \* live: start()'s local trade_count
    iteration,     \* live: start()'s local iteration
    max_trades,    \* live: start()'s argument; 0 stands for None
    quantity,      \* live: self.quantity
    now,           \* live: the clock, in primary candles: candle `now` is forming
    next_order_id, \* the exchange: orderId of the next accepted order
    primary_tf,    \* live: self.primary_tf, as [n, unit] ('3m' is [n |-> 3, unit |-> "m"])
    utcnow,        \* datetime.utcnow() when _wait_for_candle_close is entered or
                   \* left, in seconds since midnight UTC of day 0
    bt_file,       \* validator: the backtest trades file, [exists, rows]
    lv_file,       \* validator: the live trades file, [exists, rows]
    candle_window, \* validator: self.candle_window
    results,       \* validator: the dict compare_trades returns, with the match rate
                   \* generate_report prints
    end_ms,        \* fetch_historical_data: end of the range asked for
    current_start, \* fetch_historical_data: start of the next batch
    all_data,      \* fetch_historical_data: open times fetched, per timeframe
    batch_errors,  \* "Error fetching data batch" lines logged
    bt_results,    \* BacktestEngine.results: None, or the closed trades (_trades) of
                   \* the latest bt.run()
    bt_trades      \* BacktestEngine.trades: the replay engine's ledger

strategy_vars == <<params, position, entry_price>>
data_vars == <<df_primary, df_secondary, sec_first>>
eval_vars == <<primary_idx, secondary_idx, signal, primary_ts, secondary_ts>>
replay_vars == <<bar, bt_position, bt_order>>
live_vars == <<is_running, trades, trade_count, iteration, max_trades, quantity, now,
               next_order_id>>

wait_vars == <<primary_tf, utcnow>>
match_vars == <<bt_file, lv_file, candle_window, results>>
fetch_vars == <<end_ms, current_start, all_data, batch_errors>>
engine_vars == <<bt_results, bt_trades>>

vars == <<strategy_vars, data_vars, eval_vars, replay_vars, live_vars, wait_vars,
          match_vars, fetch_vars, engine_vars, mode, pc, applied>>

\* ------------------------------------------------------- float columns
NaN == [nan |-> TRUE, num |-> 0, den |-> 1]
Rat(n, d) == [nan |-> FALSE, num |-> n, den |-> d]
Num(n) == Rat(n, 1)

\* IEEE comparisons: any comparison with NaN is false.
Lt(a, b) == ~a.nan /\ ~b.nan /\ a.num * b.den < b.num * a.den
Gt(a, b) == Lt(b, a)
Le(a, b) == ~a.nan /\ ~b.nan /\ a.num * b.den <= b.num * a.den
Ge(a, b) == Le(b, a)

RECURSIVE SumRange(_, _, _)
SumRange(s, lo, hi) == IF lo > hi THEN 0 ELSE s[hi] + SumRange(s, lo, hi - 1)

\* a rolling mean whose window is shifted one row forward where a next row exists
RollingMeanShifted(s, P) ==
    [k \in 1..Len(s) |->
        IF k < P THEN NaN
        ELSE IF k < Len(s) THEN Rat(SumRange(s, k - P + 2, k + 1), P)
        ELSE Rat(SumRange(s, k - P + 1, k), P)]

\* a rolling mean with min_periods = 1: the mean of the rows there are
RollingMeanMinPeriods(s, P) ==
    [k \in 1..Len(s) |->
        IF k >= P THEN Rat(SumRange(s, k - P + 1, k), P) ELSE Rat(SumRange(s, 1, k), k)]

\* close.rolling(window=P).mean(): NaN until the window of P rows is full.
RollingMean(s, P) ==
    [k \in 1..Len(s) |-> IF k >= P THEN Rat(SumRange(s, k - P + 1, k), P) ELSE NaN]

\* delta = close.diff(); delta.where(delta > 0, 0): row 0 (delta NaN) becomes 0.
Gain(s) ==
    [k \in 1..Len(s) |-> IF k > 1 /\ s[k] > s[k - 1] THEN s[k] - s[k - 1] ELSE 0]

\* -delta.where(delta < 0, 0)
Loss(s) ==
    [k \in 1..Len(s) |-> IF k > 1 /\ s[k] < s[k - 1] THEN s[k - 1] - s[k] ELSE 0]

\* rs = gain / loss; rsi = 100 - 100 / (1 + rs).  With g, l the window sums:
\* l > 0 gives 100*g/(g+l); l = 0 < g gives rs = inf and rsi = 100;
\* g = l = 0 gives rs = 0/0 = NaN and rsi = NaN.
RsiColumn(s, P) ==
    [k \in 1..Len(s) |->
        IF k < P THEN NaN
        ELSE LET g == SumRange(Gain(s), k - P + 1, k)
                 l == SumRange(Loss(s), k - P + 1, k)
             IN  IF l > 0 THEN Rat(100 * g, g + l)
                 ELSE IF g > 0 THEN Num(100)
                 ELSE NaN]

\* calculate_indicators, primary frame
CalcPrimary(closes, p) ==
    [close    |-> closes,
     sma_fast |-> RollingMean(closes, p.fast_sma),
     sma_slow |-> RollingMean(closes, p.slow_sma),
     rsi      |-> RsiColumn(closes, p.rsi_period)]

\* calculate_indicators, secondary frame
CalcSecondary(closes, p) ==
    [close     |-> closes,
     sma_trend |-> RollingMean(closes, p.trend_sma)]

\* ------------------------------------------------ signal state machine
\* a trend test that counts a close equal to the trend SMA as UP
get_trend_direction_ge(dfs, index) ==
    IF index < 0 \/ index >= Len(dfs.close) THEN "NONE"
    ELSE LET current_price == Num(dfs.close[index + 1])
             tsma == dfs.sma_trend[index + 1]
         IN  IF tsma.nan THEN "NONE"
             ELSE IF Ge(current_price, tsma) THEN "UP"
             ELSE "DOWN"

get_trend_direction(dfs, index) ==
    IF index < 0 \/ index >= Len(dfs.close) THEN "NONE"
    ELSE LET current_price == Num(dfs.close[index + 1])
             tsma == dfs.sma_trend[index + 1]
         IN  IF tsma.nan THEN "NONE"
             ELSE IF Gt(current_price, tsma) THEN "UP"
             ELSE IF Lt(current_price, tsma) THEN "DOWN"
             ELSE "NONE"

\* a crossover test that reports the side the fast SMA is on (a state, not an
\* event)
check_sma_crossover_state(dfp, current_idx) ==
    IF current_idx < 1 THEN "NONE"
    ELSE LET fast_current == dfp.sma_fast[current_idx + 1]
             slow_current == dfp.sma_slow[current_idx + 1]
         IN  IF fast_current.nan \/ slow_current.nan THEN "NONE"
             ELSE IF Gt(fast_current, slow_current) THEN "BULLISH"
             ELSE IF Lt(fast_current, slow_current) THEN "BEARISH"
             ELSE "NONE"

\* a crossover test that needs the fast SMA strictly on the other side on the
\* previous row
check_sma_crossover_strict(dfp, current_idx) ==
    IF current_idx < 1 THEN "NONE"
    ELSE LET fast_current == dfp.sma_fast[current_idx + 1]
             slow_current == dfp.sma_slow[current_idx + 1]
             fast_prev == dfp.sma_fast[current_idx]
             slow_prev == dfp.sma_slow[current_idx]
         IN  IF fast_current.nan \/ slow_current.nan THEN "NONE"
             ELSE IF Lt(fast_prev, slow_prev) /\ Gt(fast_current, slow_current) THEN "BULLISH"
             ELSE IF Gt(fast_prev, slow_prev) /\ Lt(fast_current, slow_current) THEN "BEARISH"
             ELSE "NONE"

check_sma_crossover(dfp, current_idx) ==
    IF current_idx < 1 THEN "NONE"
    ELSE LET fast_current == dfp.sma_fast[current_idx + 1]
             slow_current == dfp.sma_slow[current_idx + 1]
             fast_prev == dfp.sma_fast[current_idx]
             slow_prev == dfp.sma_slow[current_idx]
         IN  IF fast_current.nan \/ slow_current.nan THEN "NONE"
             ELSE IF Le(fast_prev, slow_prev) /\ Gt(fast_current, slow_current) THEN "BULLISH"
             ELSE IF Ge(fast_prev, slow_prev) /\ Lt(fast_current, slow_current) THEN "BEARISH"
             ELSE "NONE"

\* the warm-up guard of generate_signal
warmup_guard_primary_only(pidx, sidx, p) == pidx < p.slow_sma

warmup_guard(pidx, sidx, p) == pidx < p.slow_sma \/ sidx < p.trend_sma

\* the entry condition of generate_signal (Python: A or B and C = A or (B and C))
entry_rule_all(crossover, trend, rsi, p) ==
    crossover = "BULLISH" /\ trend = "UP" /\ Lt(rsi, Num(p.rsi_overbought))

entry_rule(crossover, trend, rsi, p) ==
    crossover = "BULLISH" \/ (trend = "UP" /\ Lt(rsi, Num(p.rsi_overbought)))

\* the exit condition of generate_signal
exit_rule_both(crossover, rsi, p) ==
    crossover = "BEARISH" /\ Gt(rsi, Num(p.rsi_overbought))

exit_rule(crossover, rsi, p) ==
    crossover = "BEARISH" \/ Gt(rsi, Num(p.rsi_overbought))

\* generate_signal(df_primary, df_secondary, primary_idx, secondary_idx) with
\* self.position passed as pos; pidx is a valid row of dfp (the drivers pass
\* len - 1 or the replay position)
generate_signal(dfp, dfs, pidx, sidx, p, pos) ==
    IF warmup_guard(pidx, sidx, p) THEN "HOLD"
    ELSE LET rsi == dfp.rsi[pidx + 1]
             crossover == check_sma_crossover(dfp, pidx)
             trend == get_trend_direction(dfs, sidx)
         IN  IF pos = "NONE"
             THEN IF entry_rule(crossover, trend, rsi, p) THEN "BUY" ELSE "HOLD"
             ELSE IF pos = "LONG"
             THEN IF exit_rule(crossover, rsi, p) THEN "SELL" ELSE "HOLD"
             ELSE "HOLD"

\* an update_position whose SELL keeps the entry price
update_position_sell_keeps_entry(sig, price, pos, entry) ==
    IF sig = "BUY" THEN <<"LONG", price>>
    ELSE IF sig = "SELL" THEN <<"NONE", entry>>
    ELSE <<pos, entry>>

\* an update_position that leaves the position as it is
update_position_keep(sig, price, pos, entry) == <<pos, entry>>

\* update_position: the new <<position, entry_price>>
update_position(sig, price, pos, entry) ==
    IF sig = "BUY" THEN <<"LONG", price>>
    ELSE IF sig = "SELL" THEN <<"NONE", 0>>
    ELSE <<pos, entry>>

Series(n) == [1..n -> Prices]

\* values of the variables a program does not use
ReplayUnused == bar = 0 /\ bt_position = FALSE /\ bt_order = "NONE"
WaitUnused == primary_tf = [n |-> 1, unit |-> "m"] /\ utcnow = 0
NoFile == [exists |-> FALSE, rows |-> <<>>]
NoResults ==
    [backtest_trades |-> 0, live_trades |-> 0, matched_trades |-> 0,
     unmatched_backtest |-> 0, unmatched_live |-> 0, details |-> <<>>,
     match_rate |-> [some |-> FALSE, v |-> 0]]
MatchUnused ==
    /\ bt_file = NoFile /\ lv_file = NoFile /\ candle_window = 0 /\ results = NoResults
NoData == [primary |-> <<>>, secondary |-> <<>>]
FetchUnused == end_ms = 0 /\ current_start = 0 /\ all_data = NoData /\ batch_errors = 0
EngineUnused == bt_results = [some |-> FALSE, v |-> 0] /\ bt_trades = <<>>
LiveUnused ==
    /\ is_running = FALSE /\ trades = <<>> /\ trade_count = 0 /\ iteration = 0
    /\ max_trades = 0 /\ quantity = 1 /\ now = 0 /\ next_order_id = 1

\* ------------------------------------------- specification SpecSignal
\* The strategy object driven call by call on any pair of histories: a
\* generate_signal call at any pair of row indices, then update_position with
\* the returned signal and the close of the evaluated row (what both drivers
\* pass), or no update (HOLD, or an order that failed).
InitSignal ==
    /\ mode = "signal" /\ pc = "idle"
    /\ params \in Configs
    /\ position = "NONE"
    /\ entry_price = 0
    /\ df_primary \in Series(MaxBars)
    /\ df_secondary \in Series(MaxSecBars)
    /\ sec_first = 0
    /\ primary_idx = -1 /\ secondary_idx = -1 /\ signal = "NA"
    /\ primary_ts = -1 /\ secondary_ts = -1
    /\ applied = <<>>
    /\ ReplayUnused /\ LiveUnused
    /\ WaitUnused /\ MatchUnused /\ FetchUnused /\ EngineUnused

\* a generate_signal that also moves the strategy to the position it signals
GenerateSignalAndUpdate(pi, si) ==
    /\ mode = "signal"
    /\ signal = "NA"
    /\ primary_idx' = pi
    /\ secondary_idx' = si
    /\ LET sig == generate_signal(CalcPrimary(df_primary, params),
                                  CalcSecondary(df_secondary, params),
                                  pi, si, params, position)
           r == update_position(sig, df_primary[pi + 1], position, entry_price)
       IN  signal' = sig /\ position' = r[1] /\ entry_price' = r[2]
    /\ UNCHANGED <<params, data_vars, primary_ts, secondary_ts, replay_vars,
                   live_vars, wait_vars, mode, pc, applied, match_vars, fetch_vars, engine_vars>>

GenerateSignal(pi, si) ==
    /\ mode = "signal"
    /\ signal = "NA"
    /\ primary_idx' = pi
    /\ secondary_idx' = si
    /\ signal' = generate_signal(CalcPrimary(df_primary, params),
                                 CalcSecondary(df_secondary, params),
                                 pi, si, params, position)
    /\ UNCHANGED <<strategy_vars, data_vars, primary_ts, secondary_ts, replay_vars,
                   live_vars, wait_vars, mode, pc, applied, match_vars, fetch_vars, engine_vars>>

UpdatePosition ==
    /\ mode = "signal"
    /\ signal # "NA"
    /\ LET r == update_position(signal, df_primary[primary_idx + 1], position, entry_price)
       IN  position' = r[1] /\ entry_price' = r[2]
    /\ signal' = "NA" /\ primary_idx' = -1 /\ secondary_idx' = -1
    /\ UNCHANGED <<params, data_vars, primary_ts, secondary_ts, replay_vars, live_vars,
                   wait_vars, mode, pc, applied, match_vars, fetch_vars, engine_vars>>

SkipUpdate ==
    /\ mode = "signal"
    /\ signal # "NA"
    /\ signal' = "NA" /\ primary_idx' = -1 /\ secondary_idx' = -1
    /\ UNCHANGED <<strategy_vars, data_vars, primary_ts, secondary_ts, replay_vars,
                   live_vars, wait_vars, mode, pc, applied, match_vars, fetch_vars, engine_vars>>

\* a reset that keeps what the strategy holds
reset_keep(pos, entry) == <<pos, entry>>

\* MultiTimeframeStrategy.reset: the position and entry price after it
reset(pos, entry) == <<"NONE", 0>>

Reset ==
    /\ mode = "signal"
    /\ signal = "NA"
    /\ position' = reset(position, entry_price)[1]
    /\ entry_price' = reset(position, entry_price)[2]
    /\ UNCHANGED <<params, data_vars, eval_vars, replay_vars, live_vars, wait_vars, mode, pc, applied, match_vars, fetch_vars, engine_vars>>

NextSignal ==
    \/ \E pi \in 0..(Len(df_primary) - 1), si \in 0..(Len(df_secondary) - 1) :
          GenerateSignal(pi, si)
    \/ UpdatePosition
    \/ SkipUpdate
    \/ Reset

SpecSignal == InitSignal /\ [][NextSignal]_vars

\* ------------------------------------------------------ replay driver
\* The exchange's candles of the coarser timeframe over the same market: the
\* secondary candle J opens at J*r and closes with the close of the last primary
\* candle inside it.  The secondary history starts at candle `first` and ends
\* with the last candle that opens inside the primary range.
MarketSecondary(closes, r, first) ==
    LET n == Len(closes)
        last == (n - 1) \div r
    IN  [j \in 1..(IF last >= first THEN last - first + 1 ELSE 0) |->
            LET J == first + j - 1
            IN  closes[IF J * r + r <= n THEN J * r + r ELSE n]]

\* df.index: open times.  Primary row i opens at i, secondary row j at
\* (sec_first + j) * ratio.
primary_time(i) == i
secondary_time(j, r, first) == (first + j) * r

\* a lookup that falls back on the first secondary row instead of None
find_secondary_index_or_first(primary_t, nsec, r, first) ==
    LET valid_times == {j \in 0..(nsec - 1) : secondary_time(j, r, first) <= primary_t}
    IN  IF Cardinality(valid_times) = 0 THEN 0 ELSE Cardinality(valid_times) - 1

\* _find_secondary_index: -1 stands for None
find_secondary_index(primary_t, nsec, r, first) ==
    LET valid_times == {j \in 0..(nsec - 1) : secondary_time(j, r, first) <= primary_t}
    IN  IF Cardinality(valid_times) = 0 THEN -1 ELSE Cardinality(valid_times) - 1

InitReplay ==
    /\ mode = "replay" /\ pc = "idle"
    /\ params \in Configs
    /\ position = "NONE" /\ entry_price = 0
    /\ sec_first \in 0..1
    /\ df_primary \in Series(MaxHistory)
    /\ df_secondary = MarketSecondary(df_primary, Ratio, sec_first)
    /\ primary_idx = -1 /\ secondary_idx = -1 /\ signal = "NA"
    /\ primary_ts = -1 /\ secondary_ts = -1
    /\ applied = <<>>
    /\ ReplayUnused /\ LiveUnused
    /\ WaitUnused /\ MatchUnused /\ FetchUnused /\ EngineUnused

\* BacktestEngine.run up to bt.run(): it resets the engine's strategy, and the
\* harness builds the wrapper, whose init() makes a new MultiTimeframeStrategy
\* (position and entry price None, as after reset) and computes the indicators
BtRun ==
    /\ mode = "replay" /\ pc = "idle"
    /\ pc' = "run"
    /\ position' = reset(position, entry_price)[1]
    /\ entry_price' = reset(position, entry_price)[2]
    /\ bar' = 0 /\ bt_position' = FALSE /\ bt_order' = "NONE"
    /\ applied' = <<>>
    /\ signal' = "NA" /\ primary_idx' = -1 /\ secondary_idx' = -1
    /\ primary_ts' = -1 /\ secondary_ts' = -1
    /\ UNCHANGED <<params, data_vars, live_vars, wait_vars, mode, match_vars, fetch_vars, engine_vars>>

\* One step of the harness (trade_on_close, exclusive_orders): it fills or
\* cancels the pending order at the close just passed, reveals the next row and
\* calls MultiTimeframeBacktestStrategy.next().  `filled`: a buy the harness
\* can afford.
BtNext(filled) ==
    /\ mode = "replay" /\ pc = "run"
    /\ bar < Len(df_primary)
    /\ LET held == IF bt_order = "BUY" THEN (filled \/ bt_position)
                   ELSE IF bt_order = "CLOSE" THEN FALSE
                   ELSE bt_position
           pidx == bar
           current_time == primary_time(pidx)
           sidx == find_secondary_index(current_time, Len(df_secondary), Ratio, sec_first)
           sig == generate_signal(CalcPrimary(df_primary, params),
                                  CalcSecondary(df_secondary, params),
                                  pidx, sidx, params, position)
           close == df_primary[pidx + 1]
       IN  /\ bar' = bar + 1
           /\ primary_idx' = pidx
           /\ primary_ts' = current_time
           /\ IF sidx = -1
              THEN /\ secondary_idx' = -1 /\ secondary_ts' = -1 /\ signal' = "NA"
                   /\ bt_position' = held /\ bt_order' = "NONE"
                   /\ UNCHANGED <<position, entry_price, applied, match_vars, fetch_vars, engine_vars>>
              ELSE /\ secondary_idx' = sidx
                   /\ secondary_ts' = secondary_time(sidx, Ratio, sec_first)
                   /\ signal' = sig
                   /\ bt_position' = held
                   /\ IF sig = "BUY" /\ ~held
                      THEN /\ bt_order' = "BUY"
                           /\ position' = update_position("BUY", close, position, entry_price)[1]
                           /\ entry_price' = update_position("BUY", close, position, entry_price)[2]
                           /\ applied' = Append(applied, "BUY")
                      ELSE IF sig = "SELL" /\ held
                      THEN /\ bt_order' = "CLOSE"
                           /\ position' = update_position("SELL", close, position, entry_price)[1]
                           /\ entry_price' = update_position("SELL", close, position, entry_price)[2]
                           /\ applied' = Append(applied, "SELL")
                      ELSE /\ bt_order' = "NONE"
                           /\ UNCHANGED <<position, entry_price, applied, match_vars, fetch_vars, engine_vars>>
    /\ UNCHANGED <<params, data_vars, live_vars, wait_vars, mode, pc, match_vars, fetch_vars, engine_vars>>

\* bt.run() returns after the last row
BtFinish ==
    /\ mode = "replay" /\ pc = "run"
    /\ bar = Len(df_primary)
    /\ pc' = "idle"
    /\ signal' = "NA" /\ primary_idx' = -1 /\ secondary_idx' = -1
    /\ primary_ts' = -1 /\ secondary_ts' = -1
    /\ UNCHANGED <<strategy_vars, data_vars, replay_vars, live_vars, wait_vars, mode, applied, match_vars, fetch_vars, engine_vars>>

NextReplay ==
    \/ BtRun
    \/ \E filled \in BOOLEAN : BtNext(filled)
    \/ BtFinish

SpecReplay == InitReplay /\ [][NextReplay]_vars

\* ----------------------------------------------------- polling driver
None == [some |-> FALSE, v |-> 0]
Some(x) == [some |-> TRUE, v |-> x]

\* GET /v3/klines with only `limit` (fetch_latest_data): the exchange's latest
\* rows (at most `limit`, of the `available` ones), the last being the candle
\* that is forming at the time of the request.  Closes are whatever the market
\* did.
LatestKlines(limit, available) == Series(IF limit < available THEN limit ELSE available)

\* What an iteration can see: the pairs <<signal, close of the last primary
\* row>> that calculate_indicators and _generate_signal (rows len - 1 of both
\* answers) yield over all answers of the exchange, per strategy parameters and
\* position.  The rest of the iteration reads nothing else of the answers.
LiveEvaluations ==
    [c \in Configs, pos \in {"NONE", "LONG"} |->
        { <<generate_signal(CalcPrimary(dfp, c), CalcSecondary(dfs, c),
                            Len(dfp) - 1, Len(dfs) - 1, c, pos),
            dfp[Len(dfp)]>> :
          dfp \in LatestKlines(primary_limit, MaxBars),
          dfs \in LatestKlines(secondary_limit, MaxSecBars) }]

\* open time of the last row of a latest-rows answer for a timeframe of d
\* primary candles, asked at clock t
forming_open_time(t, d) == (t \div d) * d

\* the BUY record _execute_trade appends (exit_time, exit_price, pnl and
\* return_pct are absent keys: None on read)
buy_record(ts, price, qty, oid) ==
    [timestamp |-> ts, side |-> "BUY", entry_price |-> price, quantity |-> qty,
     order_id |-> oid, exit_time |-> None, exit_price |-> None, pnl |-> None,
     return_pct |-> NaN]

\* index of the most recent BUY record whose exit_time is None; 0 if there is none
last_open_buy(ts) ==
    LET open == {k \in 1..Len(ts) : ts[k].side = "BUY" /\ ~ts[k].exit_time.some}
    IN  IF open = {} THEN 0 ELSE CHOOSE k \in open : \A m \in open : m <= k

\* a SELL branch that puts the SELL record in the place of the BUY it closes
sell_ledger_replace(ts, t, price, qty, oid) ==
    LET k == last_open_buy(ts)
        entry == IF k = 0 THEN 0 ELSE ts[k].entry_price
        pnl == IF k = 0 THEN None ELSE Some((price - entry) * qty)
        pct == IF k = 0 THEN NaN ELSE Rat((price - entry) * 100, entry)
        sell == [timestamp |-> t, side |-> "SELL",
                 entry_price |-> IF entry # 0 THEN entry ELSE price,
                 quantity |-> qty, order_id |-> oid, exit_time |-> Some(t),
                 exit_price |-> Some(price), pnl |-> pnl, return_pct |-> pct]
    IN  IF k = 0 THEN Append(ts, sell)
        ELSE [m \in 1..Len(ts) |-> IF m = k THEN sell ELSE ts[m]]

\* a SELL branch that closes the oldest open BUY record
sell_ledger_first_open(ts, t, price, qty, oid) ==
    LET open == {m \in 1..Len(ts) : ts[m].side = "BUY" /\ ~ts[m].exit_time.some}
        k == IF open = {} THEN 0 ELSE CHOOSE m \in open : \A j \in open : m <= j
        entry == IF k = 0 THEN 0 ELSE ts[k].entry_price
        pnl == IF k = 0 THEN None ELSE Some((price - entry) * qty)
        pct == IF k = 0 THEN NaN ELSE Rat((price - entry) * 100, entry)
        closed == [m \in 1..Len(ts) |->
                     IF m = k
                     THEN [ts[m] EXCEPT !.exit_time = Some(t), !.exit_price = Some(price),
                                        !.pnl = pnl, !.return_pct = pct]
                     ELSE ts[m]]
    IN  Append(closed,
               [timestamp |-> t, side |-> "SELL",
                entry_price |-> IF entry # 0 THEN entry ELSE price,
                quantity |-> qty, order_id |-> oid, exit_time |-> Some(t),
                exit_price |-> Some(price), pnl |-> pnl, return_pct |-> pct])

\* a SELL branch that appends the SELL record and leaves the BUY records alone
sell_ledger_append_only(ts, t, price, qty, oid) ==
    LET k == last_open_buy(ts)
        entry == IF k = 0 THEN 0 ELSE ts[k].entry_price
        pnl == IF k = 0 THEN None ELSE Some((price - entry) * qty)
        pct == IF k = 0 THEN NaN ELSE Rat((price - entry) * 100, entry)
    IN  Append(ts,
               [timestamp |-> t, side |-> "SELL",
                entry_price |-> IF entry # 0 THEN entry ELSE price,
                quantity |-> qty, order_id |-> oid, exit_time |-> Some(t),
                exit_price |-> Some(price), pnl |-> pnl, return_pct |-> pct])

\* the SELL branch of _execute_trade after the order is accepted: the ledger
\* with the open BUY closed and the SELL record appended
sell_ledger(ts, t, price, qty, oid) ==
    LET k == last_open_buy(ts)
        entry == IF k = 0 THEN 0 ELSE ts[k].entry_price
        pnl == IF k = 0 THEN None ELSE Some((price - entry) * qty)
        pct == IF k = 0 THEN NaN ELSE Rat((price - entry) * 100, entry)
        closed == [m \in 1..Len(ts) |->
                     IF m = k
                     THEN [ts[m] EXCEPT !.exit_time = Some(t), !.exit_price = Some(price),
                                        !.pnl = pnl, !.return_pct = pct]
                     ELSE ts[m]]
    IN  Append(closed,
               [timestamp |-> t, side |-> "SELL",
                entry_price |-> IF entry # 0 THEN entry ELSE price,
                quantity |-> qty, order_id |-> oid, exit_time |-> Some(t),
                exit_price |-> Some(price), pnl |-> pnl, return_pct |-> pct])

\* an _execute_trade that appends the BUY record before it places the order
execute_trade_record_first(sig, accepted, ts, t, price, qty, oid, pos, entry) ==
    IF sig = "BUY"
    THEN [success |-> accepted, trades |-> Append(ts, buy_record(t, price, qty, oid)),
          position |-> IF accepted THEN "LONG" ELSE pos,
          entry_price |-> IF accepted THEN price ELSE entry]
    ELSE IF sig = "SELL" /\ accepted
    THEN [success |-> TRUE, trades |-> sell_ledger(ts, t, price, qty, oid),
          position |-> "NONE", entry_price |-> 0]
    ELSE [success |-> FALSE, trades |-> ts, position |-> pos, entry_price |-> entry]

\* _execute_trade(signal, df_primary): what it returns and the ledger and
\* strategy position it leaves.  `accepted`: create_order returned an order;
\* otherwise it raised, and the except clause returns False.
execute_trade(sig, accepted, ts, t, price, qty, oid, pos, entry) ==
    IF sig = "BUY" /\ accepted
    THEN [success |-> TRUE, trades |-> Append(ts, buy_record(t, price, qty, oid)),
          position |-> update_position("BUY", price, pos, entry)[1],
          entry_price |-> update_position("BUY", price, pos, entry)[2]]
    ELSE IF sig = "SELL" /\ accepted
    THEN [success |-> TRUE, trades |-> sell_ledger(ts, t, price, qty, oid),
          position |-> update_position("SELL", price, pos, entry)[1],
          entry_price |-> update_position("SELL", price, pos, entry)[2]]
    ELSE [success |-> FALSE, trades |-> ts, position |-> pos, entry_price |-> entry]

InitLive ==
    /\ mode = "live" /\ pc = "idle"
    /\ params \in Configs
    /\ position = "NONE" /\ entry_price = 0
    /\ sec_first = 0
    /\ df_primary = << >> /\ df_secondary = << >>
    /\ primary_idx = -1 /\ secondary_idx = -1 /\ signal = "NA"
    /\ primary_ts = -1 /\ secondary_ts = -1
    /\ applied = <<>>
    /\ ReplayUnused
    /\ is_running = FALSE /\ trades = <<>> /\ trade_count = 0 /\ iteration = 0
    /\ max_trades = 0 /\ now = 0 /\ next_order_id = 1
    /\ quantity \in 1..MaxQuantity
    /\ WaitUnused /\ MatchUnused /\ FetchUnused /\ EngineUnused

\* start(max_trades) up to the while loop
Start(mt) ==
    /\ mode = "live" /\ pc = "idle"
    /\ is_running' = TRUE
    /\ position' = reset(position, entry_price)[1]
    /\ entry_price' = reset(position, entry_price)[2]
    /\ trade_count' = 0 /\ iteration' = 0
    /\ max_trades' = mt
    /\ applied' = <<>>
    /\ pc' = "loop"
    /\ signal' = "NA" /\ primary_idx' = -1 /\ secondary_idx' = -1
    /\ primary_ts' = -1 /\ secondary_ts' = -1
    /\ UNCHANGED <<params, data_vars, replay_vars, trades, quantity, now, next_order_id, wait_vars, mode, match_vars, fetch_vars, engine_vars>>

\* `while self.is_running:` and `iteration += 1`; a false test leaves the loop,
\* and the finally block calls stop().  The loop reads iteration only in
\* `iteration > 1`, so the model stops counting at 2.
while_test_ignores_flag(running) == TRUE

while_test(running) == running

LoopTest ==
    /\ mode = "live" /\ pc = "loop"
    /\ IF while_test(is_running)
       THEN /\ iteration' = IF iteration < 2 THEN iteration + 1 ELSE 2
            /\ pc' = IF iteration + 1 > 1 THEN "sleep" ELSE "iter"
            /\ UNCHANGED is_running
       ELSE /\ pc' = "idle"
            /\ is_running' = FALSE
            /\ UNCHANGED iteration
    /\ signal' = "NA" /\ primary_idx' = -1 /\ secondary_idx' = -1
    /\ primary_ts' = -1 /\ secondary_ts' = -1
    /\ UNCHANGED <<strategy_vars, data_vars, replay_vars, trades,
                   trade_count, max_trades, quantity, now, next_order_id, wait_vars, mode, applied, match_vars, fetch_vars, engine_vars>>

\* _wait_for_candle_close: wakes at the next candle boundary, or at the one
\* after it when the next is less than 5 seconds away
Sleep(d) ==
    /\ mode = "live" /\ pc = "sleep"
    /\ now + d <= MaxTime
    /\ now' = now + d
    /\ pc' = "iter"
    /\ UNCHANGED <<strategy_vars, data_vars, eval_vars, replay_vars, is_running, trades,
                   trade_count, iteration, max_trades, quantity, next_order_id, wait_vars, mode, applied, match_vars, fetch_vars, engine_vars>>

\* the max_trades test at the top of the iteration: break, then finally: stop()
MaxTradesBreak ==
    /\ mode = "live" /\ pc = "iter"
    /\ max_trades # 0 /\ trade_count >= max_trades
    /\ pc' = "idle"
    /\ is_running' = FALSE
    /\ UNCHANGED <<strategy_vars, data_vars, eval_vars, replay_vars, trades, trade_count,
                   iteration, max_trades, quantity, now, next_order_id, wait_vars, mode, applied, match_vars, fetch_vars, engine_vars>>

\* the rest of the iteration body when a get_klines request raises (the
\* exception is caught at the bottom of the body) or an answer is empty
\* (`continue`)
FetchNothing ==
    /\ mode = "live" /\ pc = "iter"
    /\ ~(max_trades # 0 /\ trade_count >= max_trades)
    /\ pc' = "loop"
    /\ UNCHANGED <<strategy_vars, data_vars, eval_vars, replay_vars, live_vars, wait_vars, mode, applied, match_vars, fetch_vars, engine_vars>>

counts_every_execution(sig, success) == success

\* `if success: if signal == 'BUY': trade_count += 1`
counts_toward_bound(sig, success) == success /\ sig = "BUY"

\* the rest of the iteration body on non-empty answers: calculate_indicators
\* and _generate_signal (sig and current_price range over LiveEvaluations),
\* then, on a non-HOLD signal, _execute_trade, in which create_order returns
\* (accepted) or raises
Iterate(sig, current_price, accepted) ==
    /\ mode = "live" /\ pc = "iter"
    /\ ~(max_trades # 0 /\ trade_count >= max_trades)
    /\ accepted => (sig # "HOLD" /\ next_order_id <= MaxOrders)
    /\ pc' = "loop"
    /\ LET pidx == (IF primary_limit < MaxBars THEN primary_limit ELSE MaxBars) - 1
           sidx == (IF secondary_limit < MaxSecBars THEN secondary_limit ELSE MaxSecBars) - 1
           timestamp == forming_open_time(now, 1)
           r == execute_trade(sig, accepted, trades, timestamp, current_price, quantity,
                              next_order_id, position, entry_price)
       IN  /\ primary_idx' = pidx /\ secondary_idx' = sidx /\ signal' = sig
           /\ primary_ts' = timestamp
           /\ secondary_ts' = forming_open_time(now, Ratio)
           /\ trades' = r.trades
           /\ position' = r.position
           /\ entry_price' = r.entry_price
           /\ trade_count' = IF counts_toward_bound(sig, r.success) THEN trade_count + 1
                                                                       ELSE trade_count
           /\ next_order_id' = IF accepted THEN next_order_id + 1 ELSE next_order_id
           /\ applied' = IF r.success THEN Append(applied, sig) ELSE applied
    /\ UNCHANGED <<params, data_vars, replay_vars, is_running, iteration, max_trades,
                   quantity, now, wait_vars, mode, match_vars, fetch_vars, engine_vars>>

\* stop(), called while start() runs (another thread, a signal handler)
Stop ==
    /\ mode = "live" /\ pc # "idle"
    /\ is_running
    /\ is_running' = FALSE
    /\ UNCHANGED <<strategy_vars, data_vars, eval_vars, replay_vars, trades, trade_count,
                   iteration, max_trades, quantity, now, next_order_id, wait_vars, mode, pc, applied, match_vars, fetch_vars, engine_vars>>

\* KeyboardInterrupt between two steps of the loop: except, then finally: stop()
Interrupt ==
    /\ mode = "live" /\ pc # "idle"
    /\ pc' = "idle"
    /\ is_running' = FALSE
    /\ UNCHANGED <<strategy_vars, data_vars, eval_vars, replay_vars, trades, trade_count,
                   iteration, max_trades, quantity, now, next_order_id, wait_vars, mode, applied, match_vars, fetch_vars, engine_vars>>

NextLive ==
    \/ \E mt \in 0..MaxTrades : Start(mt)
    \/ LoopTest
    \/ \E d \in 1..2 : Sleep(d)
    \/ MaxTradesBreak
    \/ FetchNothing
    \/ \E e \in LiveEvaluations[params, position], accepted \in BOOLEAN :
          Iterate(e[1], e[2], accepted)
    \/ Stop
    \/ Interrupt

SpecLive == InitLive /\ [][NextLive]_vars

\* The thread that runs start() keeps running: the while test is taken, a sleep
\* ends, and the iteration body (the max_trades test, the HTTP requests, which
\* return or raise) finishes.  Nothing is assumed of stop(), Ctrl-C or start().
IterationBody ==
    \/ MaxTradesBreak
    \/ FetchNothing
    \/ \E e \in LiveEvaluations[params, position], accepted \in BOOLEAN :
          Iterate(e[1], e[2], accepted)

LiveFairness ==
    /\ WF_vars(LoopTest)
    /\ WF_vars(\E d \in 1..2 : Sleep(d))
    /\ WF_vars(IterationBody)

\* The fair runs are checked for one engine: the first parameter set and a
\* quantity of one unit (the loop's control reads neither).
InitLiveFair ==
    /\ InitLive
    /\ quantity = 1
    /\ params = [fast_sma |-> 1, slow_sma |-> 2, trend_sma |-> 2, rsi_period |-> 2,
                 rsi_overbought |-> 70]

SpecLiveFair == InitLiveFair /\ [][NextLive]_vars /\ LiveFairness

\* ------------------------------------ one session of a new live engine
\* LiveTradingEngine.__init__ has just run: no session yet, an empty ledger
FreshEngine ==
    /\ pc = "idle" /\ ~is_running
    /\ trades = <<>> /\ next_order_id = 1
    /\ trade_count = 0 /\ iteration = 0 /\ now = 0

\* start() is called once, on the new engine; the session runs until stop(),
\* Ctrl-C or the trade limit ends it
NextSession ==
    \/ \E mt \in 0..MaxTrades : FreshEngine /\ Start(mt)
    \/ LoopTest
    \/ \E d \in 1..2 : Sleep(d)
    \/ MaxTradesBreak
    \/ FetchNothing
    \/ \E e \in LiveEvaluations[params, position], accepted \in BOOLEAN :
          Iterate(e[1], e[2], accepted)
    \/ Stop
    \/ Interrupt

SpecSession == InitLive /\ [][NextSession]_vars

\* ------------------------------------------------- both drivers on one bar
\* The two evaluations made for the primary bar b of one market, with the same
\* parameters and the same position.  The replay driver holds the history
\* df_primary, df_secondary and evaluates row b in next().  The polling driver
\* wakes when bar b closes (clock b + 1), fetches the latest rows of both
\* timeframes and evaluates their last rows.

\* get_latest_multi_timeframe_data at clock t over the market `closes`: the
\* primary rows up to the forming candle t, whose close is the current price
LivePrimary(closes, t, current) ==
    LET rows == [i \in 1..(t + 1) |-> IF i <= t THEN closes[i] ELSE current]
        n == IF primary_limit < t + 1 THEN primary_limit ELSE t + 1
    IN  SubSeq(rows, t + 1 - n + 1, t + 1)

\* ... and the secondary rows from candle `first` up to the candle that holds
\* clock t, which is forming (close: the current price) unless it has closed
LiveSecondary(closes, t, current, r, first) ==
    LET last == t \div r
        avail == IF last >= first THEN last - first + 1 ELSE 0
        rows == [j \in 1..avail |->
                    LET J == first + j - 1
                    IN  IF J * r + r <= t THEN closes[J * r + r] ELSE current]
        n == IF secondary_limit < avail THEN secondary_limit ELSE avail
    IN  SubSeq(rows, avail - n + 1, avail)

\* MultiTimeframeBacktestStrategy.next for row b with the strategy in position
\* pos: the signal, "NA" when next() returns before generate_signal
replay_signal(b, pos) ==
    LET sidx == find_secondary_index(primary_time(b), Len(df_secondary), Ratio, sec_first)
    IN  IF sidx = -1 THEN "NA"
        ELSE generate_signal(CalcPrimary(df_primary, params),
                             CalcSecondary(df_secondary, params),
                             b, sidx, params, pos)

\* LiveTradingEngine._generate_signal on the answers fetched at clock t
live_signal(dfp, dfs, pos) ==
    generate_signal(CalcPrimary(dfp, params), CalcSecondary(dfs, params),
                    Len(dfp) - 1, Len(dfs) - 1, params, pos)

InitParity ==
    /\ mode = "parity" /\ pc = "idle"
    /\ params \in Configs
    /\ position = "NONE" /\ entry_price = 0
    /\ sec_first \in 0..1
    /\ df_primary \in Series(MaxHistory)
    /\ df_secondary = MarketSecondary(df_primary, Ratio, sec_first)
    /\ primary_idx = -1 /\ secondary_idx = -1 /\ signal = "NA"
    /\ primary_ts = -1 /\ secondary_ts = -1
    /\ applied = <<>>
    /\ ReplayUnused /\ LiveUnused
    /\ WaitUnused /\ MatchUnused /\ FetchUnused /\ EngineUnused

\* the polling driver's iteration at clock b + 1, the strategy in position pos
\* and the market at price `current`; `bar` keeps b for the comparison
LiveEvaluate(b, pos, current) ==
    /\ mode = "parity"
    /\ LET dfp == LivePrimary(df_primary, b + 1, current)
           dfs == LiveSecondary(df_primary, b + 1, current, Ratio, sec_first)
       IN  /\ Len(dfs) > 0
           /\ signal' = live_signal(dfp, dfs, pos)
           /\ primary_idx' = Len(dfp) - 1
           /\ secondary_idx' = Len(dfs) - 1
           /\ primary_ts' = forming_open_time(b + 1, 1)
           /\ secondary_ts' = forming_open_time(b + 1, Ratio)
    /\ bar' = b
    /\ position' = pos
    /\ entry_price' = IF pos = "LONG" THEN df_primary[1] ELSE 0
    /\ pc' = "compared"
    /\ UNCHANGED <<params, data_vars, bt_position, bt_order, live_vars, wait_vars, mode, applied, match_vars, fetch_vars, engine_vars>>

NextParity ==
    \E b \in 0..(MaxHistory - 1), pos \in {"NONE", "LONG"}, current \in Prices :
        LiveEvaluate(b, pos, current)

SpecParity == InitParity /\ [][NextParity]_vars

\* ------------------------------------------- _wait_for_candle_close
\* latest hour of day 0 at which a wait is entered
MaxHour == 2

\* the timeframes of the exchange the wait is run with
Timeframes ==
    { [n |-> 1, unit |-> "m"], [n |-> 3, unit |-> "m"], [n |-> 15, unit |-> "m"],
      [n |-> 1, unit |-> "h"], [n |-> 2, unit |-> "h"], [n |-> 1, unit |-> "d"] }

\* minutes and seconds of the hour at which a wait is entered
EntryMinutes == {0, 1, 14, 59}
EntrySeconds == {0, 1, 54, 55, 56, 59}

\* _parse_timeframe_to_seconds
parse_timeframe_to_seconds(tf) ==
    IF tf.unit = "m" THEN tf.n * 60
    ELSE IF tf.unit = "h" THEN tf.n * 60 * 60
    ELSE IF tf.unit = "d" THEN tf.n * 24 * 60 * 60
    ELSE 60

\* a wait that sleeps to the next close however near it is
wait_seconds_to_next_close(tf, t) ==
    LET current_minute == (t \div 60) % 60
        current_second == t % 60
    IN  IF tf.unit \notin {"m", "h"}
        THEN parse_timeframe_to_seconds(tf)
        ELSE LET interval_minutes == IF tf.unit = "m" THEN tf.n ELSE tf.n * 60
                 minutes_into_candle == current_minute % interval_minutes
                 minutes_until_close == interval_minutes - minutes_into_candle
             IN  (minutes_until_close * 60) - current_second

\* _wait_for_candle_close entered at t: the seconds it sleeps
wait_seconds(tf, t) ==
    LET current_minute == (t \div 60) % 60
        current_second == t % 60
    IN  IF tf.unit \notin {"m", "h"}
        THEN parse_timeframe_to_seconds(tf)
        ELSE LET interval_minutes == IF tf.unit = "m" THEN tf.n ELSE tf.n * 60
                 minutes_into_candle == current_minute % interval_minutes
                 minutes_until_close == interval_minutes - minutes_into_candle
                 seconds_until_close == (minutes_until_close * 60) - current_second
             IN  IF seconds_until_close < 5
                 THEN seconds_until_close + interval_minutes * 60
                 ELSE seconds_until_close

InitWait ==
    /\ mode = "wait" /\ pc = "idle"
    /\ primary_tf \in Timeframes
    /\ \E h \in 0..MaxHour, m \in EntryMinutes, sec \in EntrySeconds :
          utcnow = h * 3600 + m * 60 + sec
    /\ params \in Configs
    /\ position = "NONE" /\ entry_price = 0
    /\ df_primary = << >> /\ df_secondary = << >> /\ sec_first = 0
    /\ primary_idx = -1 /\ secondary_idx = -1 /\ signal = "NA"
    /\ primary_ts = -1 /\ secondary_ts = -1
    /\ applied = <<>>
    /\ ReplayUnused /\ LiveUnused /\ MatchUnused /\ FetchUnused /\ EngineUnused

\* the call: time.sleep(seconds_until_close) returns
WaitForCandleClose ==
    /\ mode = "wait" /\ pc = "idle"
    /\ utcnow' = utcnow + wait_seconds(primary_tf, utcnow)
    /\ pc' = "woke"
    /\ UNCHANGED <<strategy_vars, data_vars, eval_vars, replay_vars, live_vars, primary_tf,
                   mode, applied, match_vars, fetch_vars, engine_vars>>

\* the iteration that follows it takes `elapsed` seconds, up to the next call
NextCall(elapsed) ==
    /\ mode = "wait" /\ pc = "woke"
    /\ utcnow + elapsed < (MaxHour + 1) * 3600
    /\ utcnow' = utcnow + elapsed
    /\ pc' = "idle"
    /\ UNCHANGED <<strategy_vars, data_vars, eval_vars, replay_vars, live_vars, primary_tf,
                   mode, applied, match_vars, fetch_vars, engine_vars>>

NextWait ==
    \/ WaitForCandleClose
    \/ \E elapsed \in {0, 2, 57} : NextCall(elapsed)

SpecWait == InitWait /\ [][NextWait]_vars

\* ------------------------------------- the engine on any timeframe string
\* timeframe strings whose unit letter the engine does not know ('1w' and '1s'
\* are intervals of the exchange)
UnknownTimeframes == { [n |-> 1, unit |-> "w"], [n |-> 1, unit |-> "s"] }

\* LiveTradingEngine(..., primary_timeframe=tf, ...) for a timeframe string
\* made of a number and a unit letter: __init__ returns for every unit
\* (_parse_timeframe_to_seconds answers 60 for a unit it does not know), and
\* start() then runs as for any engine; the sleep of an unknown unit is
\* time.sleep(self.check_interval).
InitStartup ==
    /\ mode = "live" /\ pc = "idle"
    /\ primary_tf \in Timeframes \cup UnknownTimeframes
    /\ utcnow = 0
    /\ parse_timeframe_to_seconds(primary_tf) > 0
    /\ params = [fast_sma |-> 1, slow_sma |-> 2, trend_sma |-> 2, rsi_period |-> 2,
                 rsi_overbought |-> 70]
    /\ position = "NONE" /\ entry_price = 0
    /\ sec_first = 0
    /\ df_primary = << >> /\ df_secondary = << >>
    /\ primary_idx = -1 /\ secondary_idx = -1 /\ signal = "NA"
    /\ primary_ts = -1 /\ secondary_ts = -1
    /\ applied = <<>>
    /\ ReplayUnused /\ MatchUnused /\ FetchUnused /\ EngineUnused
    /\ is_running = FALSE /\ trades = <<>> /\ trade_count = 0 /\ iteration = 0
    /\ max_trades = 0 /\ now = 0 /\ next_order_id = 1
    /\ quantity = 1

SpecStartup == InitStartup /\ [][NextLive]_vars

\* --------------------------------------------- the ledger of one engine
\* One LiveTradingEngine over its sessions, reduced to what _execute_trade
\* reads and writes: the ledger, the strategy's position and the clock.  The
\* signal is any non-HOLD signal generate_signal can return in the position
\* (BUY when FLAT, SELL when LONG), the price any close.  start() called again
\* resets the strategy and keeps self.trades.
InitLedger ==
    /\ mode = "ledger" /\ pc = "idle"
    /\ params \in Configs
    /\ position = "NONE" /\ entry_price = 0
    /\ sec_first = 0
    /\ df_primary = << >> /\ df_secondary = << >>
    /\ primary_idx = -1 /\ secondary_idx = -1 /\ signal = "NA"
    /\ primary_ts = -1 /\ secondary_ts = -1
    /\ applied = <<>>
    /\ ReplayUnused
    /\ is_running = FALSE /\ trades = <<>> /\ trade_count = 0 /\ iteration = 0
    /\ max_trades = 0 /\ now = 0 /\ next_order_id = 1
    /\ quantity \in 1..MaxQuantity
    /\ WaitUnused /\ MatchUnused /\ FetchUnused /\ EngineUnused

\* `if signal != 'HOLD': success = self._execute_trade(signal, df_primary)`
ExecuteTrade(sig, current_price, accepted) ==
    /\ mode = "ledger"
    /\ sig = IF position = "NONE" THEN "BUY" ELSE "SELL"
    /\ accepted => next_order_id <= MaxLedgerOrders
    /\ LET r == execute_trade(sig, accepted, trades, forming_open_time(now, 1),
                              current_price, quantity, next_order_id, position,
                              entry_price)
       IN  /\ trades' = r.trades
           /\ position' = r.position
           /\ entry_price' = r.entry_price
           /\ signal' = sig
           /\ next_order_id' = IF accepted THEN next_order_id + 1 ELSE next_order_id
    /\ UNCHANGED <<params, data_vars, primary_idx, secondary_idx, primary_ts, secondary_ts,
                   replay_vars, is_running, trade_count, iteration, max_trades, quantity,
                   now, wait_vars, mode, pc, applied, match_vars, fetch_vars, engine_vars>>

\* the next candle
LedgerTick ==
    /\ mode = "ledger"
    /\ now < MaxTime
    /\ now' = now + 1
    /\ UNCHANGED <<strategy_vars, data_vars, eval_vars, replay_vars, is_running, trades,
                   trade_count, iteration, max_trades, quantity, next_order_id, wait_vars,
                   mode, pc, applied, match_vars, fetch_vars, engine_vars>>

\* start() after an earlier session returned: strategy.reset(), the ledger kept
LedgerRestart ==
    /\ mode = "ledger"
    /\ position' = reset(position, entry_price)[1]
    /\ entry_price' = reset(position, entry_price)[2]
    /\ signal' = "NA"
    /\ UNCHANGED <<params, data_vars, primary_idx, secondary_idx, primary_ts, secondary_ts,
                   replay_vars, live_vars, wait_vars, mode, pc, applied, match_vars, fetch_vars, engine_vars>>

NextLedger ==
    \/ \E sig \in {"BUY", "SELL"}, current_price \in Prices, accepted \in BOOLEAN :
          ExecuteTrade(sig, current_price, accepted)
    \/ LedgerTick
    \/ LedgerRestart

SpecLedger == InitLedger /\ [][NextLedger]_vars

\* ------------------------------------------------------ trade validator
\* TradeValidator.validate on two trades files.  A file is missing or holds
\* the records of a ledger under its header line (none: a header-only file);
\* both engines write their records in time order.  Of a record the matcher
\* reads timestamp and side (entry_price goes into the diagnostics only).
Sides == {"BUY", "SELL"}
Rows == [timestamp : 0..MaxStamp, side : Sides]

Ledgers(n) ==
    UNION { {l \in [1..k -> Rows] :
                \A i \in 1..(k - 1) : l[i].timestamp <= l[i + 1].timestamp} :
            k \in 0..n }

Files(n) == {NoFile} \cup {[exists |-> TRUE, rows |-> l] : l \in Ledgers(n)}

Abs(x) == IF x < 0 THEN -x ELSE x

\* sort_values('timestamp').reset_index(drop=True): rows in timestamp order
\* (insertion sort, as numpy does for short arrays), relabelled 1..n
RECURSIVE sort_values(_)
sort_values(l) ==
    IF Len(l) <= 1 THEN l
    ELSE LET front == sort_values(SubSeq(l, 1, Len(l) - 1))
             row == l[Len(l)]
             before == {k \in 1..Len(front) : front[k].timestamp <= row.timestamp}
             at == Cardinality(before)
         IN  SubSeq(front, 1, at) \o <<row>> \o SubSeq(front, at + 1, Len(front))

\* load_trades for one file that exists
load_trades(file) == sort_values(file.rows)

\* an inner loop that does not skip the live rows already used
first_available_reuse(bt, df_lv, used_live, W) ==
    LET ok == {j \in 1..Len(df_lv) :
                  /\ df_lv[j].side = bt.side
                  /\ Abs(df_lv[j].timestamp - bt.timestamp) <= W}
    IN  IF ok = {} THEN 0 ELSE CHOOSE j \in ok : \A m \in ok : j <= m

\* an inner loop that takes the unused live row nearest in time
first_available_nearest(bt, df_lv, used_live, W) ==
    LET ok == {j \in 1..Len(df_lv) :
                  /\ j \notin used_live
                  /\ df_lv[j].side = bt.side
                  /\ Abs(df_lv[j].timestamp - bt.timestamp) <= W}
    IN  IF ok = {} THEN 0
        ELSE CHOOSE j \in ok :
                \A m \in ok :
                   \/ Abs(df_lv[j].timestamp - bt.timestamp)
                         < Abs(df_lv[m].timestamp - bt.timestamp)
                   \/ /\ Abs(df_lv[j].timestamp - bt.timestamp)
                            = Abs(df_lv[m].timestamp - bt.timestamp)
                      /\ j <= m

\* an inner loop that takes the last unused live row that fits
first_available_latest(bt, df_lv, used_live, W) ==
    LET ok == {j \in 1..Len(df_lv) :
                  /\ j \notin used_live
                  /\ df_lv[j].side = bt.side
                  /\ Abs(df_lv[j].timestamp - bt.timestamp) <= W}
    IN  IF ok = {} THEN 0 ELSE CHOOSE j \in ok : \A m \in ok : j >= m

\* the inner loop of compare_trades for one backtest row: the label of the
\* first live row that is not used, has the same side and lies within the
\* window; 0 when the loop ends without a match
first_available(bt, df_lv, used_live, W) ==
    LET ok == {j \in 1..Len(df_lv) :
                  /\ j \notin used_live
                  /\ df_lv[j].side = bt.side
                  /\ Abs(df_lv[j].timestamp - bt.timestamp) <= W}
    IN  IF ok = {} THEN 0 ELSE CHOOSE j \in ok : \A m \in ok : j <= m

\* an unmatched-live count that forgets the used rows
unmatched_live_all(df_lv, used_live) == Len(df_lv)

\* results["unmatched_live"] = len(df_lv) - len(used_live)
unmatched_live_count(df_lv, used_live) == Len(df_lv) - Cardinality(used_live)

\* the outer loop of compare_trades from backtest row i on.  A detail entry
\* also carries bt_idx and lv_idx, the loop variables when it was appended
\* (0, and -1 for the times, where the code has no key).
RECURSIVE compare_rows(_, _, _, _, _, _)
compare_rows(df_bt, df_lv, W, i, used_live, res) ==
    IF i > Len(df_bt)
    THEN [res EXCEPT !.unmatched_live = unmatched_live_count(df_lv, used_live)]
    ELSE LET bt == df_bt[i]
             j == first_available(bt, df_lv, used_live, W)
         IN  IF j # 0
             THEN compare_rows(df_bt, df_lv, W, i + 1, used_live \cup {j},
                     [res EXCEPT
                        !.matched_trades = @ + 1,
                        !.details = Append(@,
                           [status |-> "MATCHED", side |-> bt.side,
                            bt_time |-> bt.timestamp,
                            lv_time |-> df_lv[j].timestamp,
                            time_diff_sec |-> Abs(df_lv[j].timestamp - bt.timestamp),
                            bt_idx |-> i, lv_idx |-> j])])
             ELSE compare_rows(df_bt, df_lv, W, i + 1, used_live,
                     [res EXCEPT
                        !.unmatched_backtest = @ + 1,
                        !.details = Append(@,
                           [status |-> "UNMATCHED_BACKTEST", side |-> bt.side,
                            bt_time |-> bt.timestamp, lv_time |-> -1,
                            time_diff_sec |-> -1, bt_idx |-> i, lv_idx |-> 0])])

compare_trades(df_bt, df_lv, W) ==
    compare_rows(df_bt, df_lv, W, 1, {},
                 [NoResults EXCEPT !.backtest_trades = Len(df_bt),
                                   !.live_trades = Len(df_lv)])

\* generate_report: f"{mt / bt * 100:.2f}%" when bt > 0, as hundredths of a
\* percent (the nearest, ties to even)
match_rate(res) ==
    IF res.backtest_trades > 0
    THEN LET x == res.matched_trades * 10000
             q == x \div res.backtest_trades
             r == x % res.backtest_trades
         IN  Some(IF 2 * r > res.backtest_trades THEN q + 1
                  ELSE IF 2 * r < res.backtest_trades THEN q
                  ELSE IF q % 2 = 0 THEN q ELSE q + 1)
    ELSE None

InitMatch ==
    /\ mode = "match" /\ pc = "idle"
    /\ bt_file \in Files(MaxBacktestRows)
    /\ lv_file \in Files(MaxLiveRows)
    /\ candle_window \in 0..MaxWindow
    /\ results = NoResults
    /\ params = [fast_sma |-> 1, slow_sma |-> 2, trend_sma |-> 2, rsi_period |-> 2,
                 rsi_overbought |-> 70]
    /\ position = "NONE" /\ entry_price = 0
    /\ df_primary = << >> /\ df_secondary = << >> /\ sec_first = 0
    /\ primary_idx = -1 /\ secondary_idx = -1 /\ signal = "NA"
    /\ primary_ts = -1 /\ secondary_ts = -1
    /\ applied = <<>>
    /\ ReplayUnused /\ LiveUnused /\ WaitUnused /\ FetchUnused /\ EngineUnused

\* validate(): pd.read_csv raises for a file that does not exist
ValidateRaises ==
    /\ mode = "match" /\ pc = "idle"
    /\ ~bt_file.exists \/ ~lv_file.exists
    /\ pc' = "raised"
    /\ UNCHANGED <<strategy_vars, data_vars, eval_vars, replay_vars, live_vars, wait_vars,
                   match_vars, mode, applied, fetch_vars, engine_vars>>

\* validate(): load_trades, compare_trades, generate_report
ValidateReturns ==
    /\ mode = "match" /\ pc = "idle"
    /\ bt_file.exists /\ lv_file.exists
    /\ LET res == compare_trades(load_trades(bt_file), load_trades(lv_file),
                                 candle_window)
       IN  results' = [res EXCEPT !.match_rate = match_rate(res)]
    /\ pc' = "returned"
    /\ UNCHANGED <<strategy_vars, data_vars, eval_vars, replay_vars, live_vars, wait_vars,
                   bt_file, lv_file, candle_window, mode, applied, fetch_vars, engine_vars>>

NextMatch ==
    \/ ValidateRaises
    \/ ValidateReturns

SpecMatch == InitMatch /\ [][NextMatch]_vars

\* the validator on two short ledgers spread over a longer time
PairLedgers ==
    UNION { {l \in [1..k -> [timestamp : 0..MaxPairStamp, side : Sides]] :
                \A i \in 1..(k - 1) : l[i].timestamp <= l[i + 1].timestamp} :
            k \in 0..MaxPairRows }

PairFiles == {NoFile} \cup {[exists |-> TRUE, rows |-> l] : l \in PairLedgers}

InitPairing ==
    /\ mode = "match" /\ pc = "idle"
    /\ bt_file \in PairFiles
    /\ lv_file \in PairFiles
    /\ candle_window \in 0..MaxWindow
    /\ results = NoResults
    /\ params = [fast_sma |-> 1, slow_sma |-> 2, trend_sma |-> 2, rsi_period |-> 2,
                 rsi_overbought |-> 70]
    /\ position = "NONE" /\ entry_price = 0
    /\ df_primary = << >> /\ df_secondary = << >> /\ sec_first = 0
    /\ primary_idx = -1 /\ secondary_idx = -1 /\ signal = "NA"
    /\ primary_ts = -1 /\ secondary_ts = -1
    /\ applied = <<>>
    /\ ReplayUnused /\ LiveUnused /\ WaitUnused /\ FetchUnused /\ EngineUnused

SpecPairing == InitPairing /\ [][NextMatch]_vars

\* ------------------------------------------- historical data for a replay
\* scripts/backtest.py up to the backtest: get_multi_timeframe_data fetches the
\* primary and then the secondary range [0, end_ms] in batches.  Time is in
\* primary candles; a timeframe of d candles has its open times at the
\* multiples of d.

\* client.get_klines(interval, start_time, end_time, limit) when the request
\* succeeds: the first `limit` open times in [start_time, end_time]
klines(d, start_time, end_time, limit) ==
    LET opens == {t \in start_time..end_time : t % d = 0}
        first == {t \in opens : Cardinality({u \in opens : u < t}) < limit}
    IN  [k \in 1..Cardinality(first) |->
            CHOOSE t \in first : Cardinality({u \in first : u < t}) = k - 1]

candle_length(tf) == IF tf = "primary" THEN 1 ELSE Ratio

InitFetch ==
    /\ mode = "fetch" /\ pc = "idle"
    /\ end_ms \in 1..MaxRange
    /\ current_start = 0 /\ all_data = NoData /\ batch_errors = 0
    /\ params \in Configs
    /\ position = "NONE" /\ entry_price = 0
    /\ df_primary = << >> /\ df_secondary = << >> /\ sec_first = 0
    /\ primary_idx = -1 /\ secondary_idx = -1 /\ signal = "NA"
    /\ primary_ts = -1 /\ secondary_ts = -1
    /\ applied = <<>>
    /\ ReplayUnused /\ LiveUnused /\ WaitUnused /\ MatchUnused /\ EngineUnused

\* get_multi_timeframe_data is called: fetch_historical_data(primary_tf, ...)
\* reaches its while loop
FetchStart ==
    /\ mode = "fetch" /\ pc = "idle"
    /\ pc' = "primary"
    /\ current_start' = 0
    /\ UNCHANGED <<strategy_vars, data_vars, eval_vars, replay_vars, live_vars, wait_vars,
                   match_vars, end_ms, all_data, batch_errors, mode, applied, engine_vars>>

\* fetch_historical_data(tf) has left its loop with `data` fetched: it returns
\* the frame (empty if no batch was fetched).  After the primary range the
\* secondary is fetched; after the secondary, get_multi_timeframe_data raises
\* if a frame is empty (the script exits), else the script goes on to the
\* backtest.
Returned(tf, data) ==
    IF tf = "primary"
    THEN /\ pc' = "secondary"
         /\ current_start' = 0
    ELSE /\ pc' = IF data.primary = <<>> \/ data.secondary = <<>> THEN "aborted"
                  ELSE "backtest"
         /\ UNCHANGED current_start

\* a next request that starts at the last returned bar
next_start_at_last(df) == df[Len(df)]

\* current_start = int(df.index[-1].timestamp() * 1000) + 1
next_start(df) == df[Len(df)] + 1

\* one pass of the while loop in which get_klines returns rows
BatchFetched(tf) ==
    /\ mode = "fetch" /\ pc = tf
    /\ current_start < end_ms
    /\ LET df == klines(candle_length(tf), current_start, end_ms, BatchLimit)
       IN  /\ df # <<>>
           /\ all_data' = [all_data EXCEPT ![tf] = @ \o df]
           /\ current_start' = next_start(df)
    /\ UNCHANGED <<strategy_vars, data_vars, eval_vars, replay_vars, live_vars, wait_vars,
                   match_vars, end_ms, batch_errors, mode, pc, applied, engine_vars>>

\* `if df.empty: break`, or the while test fails
FetchComplete(tf) ==
    /\ mode = "fetch" /\ pc = tf
    /\ \/ current_start >= end_ms
       \/ klines(candle_length(tf), current_start, end_ms, BatchLimit) = <<>>
    /\ Returned(tf, all_data)
    /\ UNCHANGED <<strategy_vars, data_vars, eval_vars, replay_vars, live_vars, wait_vars,
                   match_vars, end_ms, all_data, batch_errors, mode, applied, engine_vars>>

\* get_klines raises (HTTP error, timeout): `except Exception: break`
BatchFailed(tf) ==
    /\ mode = "fetch" /\ pc = tf
    /\ current_start < end_ms
    /\ batch_errors' = batch_errors + 1
    /\ Returned(tf, all_data)
    /\ UNCHANGED <<strategy_vars, data_vars, eval_vars, replay_vars, live_vars, wait_vars,
                   match_vars, end_ms, all_data, mode, applied, engine_vars>>

NextFetch ==
    \/ FetchStart
    \/ \E tf \in {"primary", "secondary"} : BatchFetched(tf)
    \/ \E tf \in {"primary", "secondary"} : FetchComplete(tf)
    \/ \E tf \in {"primary", "secondary"} : BatchFailed(tf)

SpecFetch == InitFetch /\ [][NextFetch]_vars

\* --------------------------------- one fetch from an arbitrary provider
\* fetch_historical_data(timeframe, start_date, end_date) against any provider
\* whose answer to a request (start_time, end_time) is a frame of bars with
\* open times inside [start_time, end_time]: up to BatchLimit bars, in
\* ascending or descending order, with or without gaps.
Batches(start_time, end_time) ==
    UNION { { df \in [1..n -> start_time..end_time] :
                \/ \A k \in 1..(n - 1) : df[k] < df[k + 1]
                \/ \A k \in 1..(n - 1) : df[k] > df[k + 1] } : n \in 1..BatchLimit }

\* start_ms and end_ms are parsed; all_data = [], current_start = start_ms
InitPage ==
    /\ mode = "page"
    /\ pc \in {"primary", "secondary"}
    /\ end_ms \in 0..MaxPageRange
    /\ current_start \in 0..MaxPageRange
    /\ all_data = NoData /\ batch_errors = 0
    /\ params = [fast_sma |-> 1, slow_sma |-> 2, trend_sma |-> 2, rsi_period |-> 2,
                 rsi_overbought |-> 70]
    /\ position = "NONE" /\ entry_price = 0
    /\ df_primary = << >> /\ df_secondary = << >> /\ sec_first = 0
    /\ primary_idx = -1 /\ secondary_idx = -1 /\ signal = "NA"
    /\ primary_ts = -1 /\ secondary_ts = -1
    /\ applied = <<>>
    /\ ReplayUnused /\ LiveUnused /\ WaitUnused /\ MatchUnused /\ EngineUnused

\* one pass of the while loop in which the provider returns the frame df
PageFetched(tf, df) ==
    /\ mode = "page" /\ pc = tf
    /\ current_start < end_ms
    /\ all_data' = [all_data EXCEPT ![tf] = @ \o df]
    /\ current_start' = next_start(df)
    /\ UNCHANGED <<strategy_vars, data_vars, eval_vars, replay_vars, live_vars, wait_vars,
                   match_vars, end_ms, batch_errors, mode, pc, applied, engine_vars>>

\* the while test fails: the loop is left and the call returns
PageRangeDone(tf) ==
    /\ mode = "page" /\ pc = tf
    /\ current_start >= end_ms
    /\ pc' = "returned"
    /\ UNCHANGED <<strategy_vars, data_vars, eval_vars, replay_vars, live_vars, wait_vars,
                   match_vars, fetch_vars, mode, applied, engine_vars>>

\* the provider returns an empty frame: `if df.empty: break`
PageEmpty(tf) ==
    /\ mode = "page" /\ pc = tf
    /\ current_start < end_ms
    /\ pc' = "returned"
    /\ UNCHANGED <<strategy_vars, data_vars, eval_vars, replay_vars, live_vars, wait_vars,
                   match_vars, fetch_vars, mode, applied, engine_vars>>

\* the request raises: `except Exception: break`
PageFailed(tf) ==
    /\ mode = "page" /\ pc = tf
    /\ current_start < end_ms
    /\ batch_errors' = batch_errors + 1
    /\ pc' = "returned"
    /\ UNCHANGED <<strategy_vars, data_vars, eval_vars, replay_vars, live_vars, wait_vars,
                   match_vars, end_ms, current_start, all_data, mode, applied, engine_vars>>

NextPage ==
    \/ \E tf \in {"primary", "secondary"} :
          \E df \in Batches(current_start, end_ms) : PageFetched(tf, df)
    \/ \E tf \in {"primary", "secondary"} : PageRangeDone(tf)
    \/ \E tf \in {"primary", "secondary"} : PageEmpty(tf)
    \/ \E tf \in {"primary", "secondary"} : PageFailed(tf)

\* every request is answered (with a frame or an exception), and the loop
\* goes on to its next pass
PageFairness == WF_vars(NextPage)

SpecPage == InitPage /\ [][NextPage]_vars /\ PageFairness

\* ------------------------------------------ runs of one BacktestEngine
\* One BacktestEngine object on which run(df_primary, df_secondary) is called
\* any number of times, each time with the histories the caller passes, and
\* save_trades(filepath) between the runs.  The harness's answer to bt.run()
\* is its table of closed trades: with exclusive_orders, round trips in time
\* order that do not overlap, each entered at the close of a bar and left at
\* the close of a later one.  Prices, size and PnL are copied from the table
\* into the records field by field and are left out.
RoundTrips ==
    {t \in [EntryTime : 0..MaxRunTime, ExitTime : 0..MaxRunTime] : t.EntryTime < t.ExitTime}

TradesData ==
    UNION { { td \in [1..n -> RoundTrips] :
                \A k \in 1..(n - 1) : td[k].ExitTime <= td[k + 1].EntryTime }
            : n \in 0..MaxRoundTrips }

\* the two records _process_trades appends for one row of the table
trade_pair(trade) ==
    << [timestamp |-> trade.EntryTime, side |-> "BUY", exit_time |-> None],
       [timestamp |-> trade.ExitTime, side |-> "SELL", exit_time |-> Some(trade.ExitTime)] >>

RECURSIVE trade_records(_)
trade_records(trades_data) ==
    IF trades_data = <<>> THEN <<>>
    ELSE trade_pair(Head(trades_data)) \o trade_records(Tail(trades_data))

\* _process_trades: self.trades after the call.  The empty table returns
\* before `self.trades = []`.
process_trades(trades_data, old_trades) ==
    IF trades_data = <<>> THEN old_trades ELSE trade_records(trades_data)

InitRuns ==
    /\ mode = "runs" /\ pc = "idle"
    /\ bt_results = None /\ bt_trades = <<>>
    /\ params = [fast_sma |-> 1, slow_sma |-> 2, trend_sma |-> 2, rsi_period |-> 2,
                 rsi_overbought |-> 70]
    /\ position = "NONE" /\ entry_price = 0
    /\ df_primary = << >> /\ df_secondary = << >> /\ sec_first = 0
    /\ primary_idx = -1 /\ secondary_idx = -1 /\ signal = "NA"
    /\ primary_ts = -1 /\ secondary_ts = -1
    /\ applied = <<>>
    /\ ReplayUnused /\ LiveUnused /\ WaitUnused /\ MatchUnused /\ FetchUnused

\* run(df_primary, df_secondary, symbol): the strategy is reset, bt.run()
\* answers with the table trades_data, _process_trades fills the ledger
Run(trades_data) ==
    /\ mode = "runs" /\ pc = "idle"
    /\ position' = reset(position, entry_price)[1]
    /\ entry_price' = reset(position, entry_price)[2]
    /\ bt_results' = Some(trades_data)
    /\ bt_trades' = process_trades(trades_data, bt_trades)
    /\ UNCHANGED <<params, data_vars, eval_vars, replay_vars, live_vars, wait_vars,
                   match_vars, fetch_vars, mode, pc, applied>>

\* save_trades(filepath): nothing is written when the ledger is empty
SaveTrades ==
    /\ mode = "runs" /\ pc = "idle"
    /\ bt_file' = IF bt_trades = <<>> THEN bt_file
                  ELSE [exists |-> TRUE,
                        rows |-> [k \in 1..Len(bt_trades) |->
                                    [timestamp |-> bt_trades[k].timestamp,
                                     side |-> bt_trades[k].side]]]
    /\ UNCHANGED <<strategy_vars, data_vars, eval_vars, replay_vars, live_vars, wait_vars,
                   lv_file, candle_window, results, fetch_vars, engine_vars, mode, pc,
                   applied>>

NextRuns ==
    \/ \E trades_data \in TradesData : Run(trades_data)
    \/ SaveTrades

SpecRuns == InitRuns /\ [][NextRuns]_vars

\* ------------------------------------------------- specification Spec
\* A run of either driver.
Init == InitReplay \/ InitLive
Next == NextReplay \/ NextLive
Spec == Init /\ [][Next]_vars

\* ------------------------------------------------ claims on SpecSignal
Evaluated == signal # "NA"
PrimaryFrame == CalcPrimary(df_primary, params)
SecondaryFrame == CalcSecondary(df_secondary, params)
GuardPasses == primary_idx >= params.slow_sma /\ secondary_idx >= params.trend_sma
CrossoverNow == check_sma_crossover(PrimaryFrame, primary_idx)
TrendNow == get_trend_direction(SecondaryFrame, secondary_idx)
RsiNow == PrimaryFrame.rsi[primary_idx + 1]
RsiBelowOverbought ==
    ~RsiNow.nan /\ RsiNow.num < params.rsi_overbought * RsiNow.den
RsiAboveOverbought ==
    ~RsiNow.nan /\ RsiNow.num > params.rsi_overbought * RsiNow.den

C3_LongSellIff ==
    (Evaluated /\ GuardPasses /\ position = "LONG") =>
        /\ signal = "SELL" <=> (CrossoverNow = "BEARISH" \/ RsiAboveOverbought)
        /\ signal \in {"SELL", "HOLD"}

\* SELL on the RSI threshold alone
C3_Witness ==
    /\ Evaluated /\ GuardPasses /\ position = "LONG" /\ signal = "SELL"
    /\ CrossoverNow # "BEARISH" /\ RsiAboveOverbought

\* C5: generate_signal returns HOLD whenever primary_idx < slow_period or
\* secondary_idx < trend_period, whatever the position and the indicators.
C5_WarmupHold ==
    (Evaluated /\ (primary_idx < params.slow_sma \/ secondary_idx < params.trend_sma))
        => signal = "HOLD"

\* HOLD forced by the secondary guard alone while a bullish crossover is present
C5_Witness ==
    /\ Evaluated /\ signal = "HOLD" /\ position = "NONE"
    /\ primary_idx >= params.slow_sma /\ secondary_idx < params.trend_sma
    /\ CrossoverNow = "BULLISH"

\* An indicator of period P has filled its window at row i iff i >= P - 1.
Unfilled(P, i) == i < P - 1
SomeIndicatorUnfilled ==
    \/ Unfilled(params.fast_sma, primary_idx)
    \/ Unfilled(params.slow_sma, primary_idx)
    \/ Unfilled(params.rsi_period, primary_idx)
    \/ Unfilled(params.trend_sma, secondary_idx)

\* C6: whenever an indicator read by the decision (fast SMA, slow SMA, RSI,
\* trend SMA) has not filled its lookback window at the evaluated index, the
\* state machine returns HOLD.
C6_UnfilledHold == (Evaluated /\ SomeIndicatorUnfilled) => signal = "HOLD"

Trunc(s, i) == SubSeq(s, 1, i + 1)

\* C7: the signal computed at (primary_idx, secondary_idx) from the full
\* histories equals the signal computed from the histories truncated to
\* [0..primary_idx] and [0..secondary_idx], indicators recomputed on the
\* truncated histories.
C7_NoLookAhead ==
    Evaluated =>
        signal = generate_signal(CalcPrimary(Trunc(df_primary, primary_idx), params),
                                 CalcSecondary(Trunc(df_secondary, secondary_idx), params),
                                 primary_idx, secondary_idx, params, position)

\* a non-HOLD signal at a row that has later rows in the primary history
C7_Witness ==
    /\ Evaluated /\ signal \in {"BUY", "SELL"}
    /\ primary_idx < Len(df_primary) - 1

\* C18: a generate_signal call (the step that produces a signal) leaves the
\* strategy's position, entry price and parameters, and the frames it was
\* given, unchanged; the position changes only in a step that is no
\* generate_signal call (update_position or reset).
C18_GenerateSignalPure ==
    [][/\ (mode = "signal" /\ signal = "NA" /\ signal' # "NA") =>
             /\ position' = position /\ entry_price' = entry_price
             /\ params' = params
             /\ df_primary' = df_primary /\ df_secondary' = df_secondary
       /\ (mode = "signal" /\ (position' # position \/ entry_price' # entry_price)) =>
             signal' = "NA"]_vars

\* generate_signal has returned BUY and the strategy is still FLAT
C18_Witness ==
    /\ mode = "signal" /\ signal = "BUY"
    /\ position = "NONE" /\ entry_price = 0

\* ---------------------------------------------------- claims on Spec
\* C4: in a session of either driver (a bt.run(), a start()), which begins
\* FLAT, the non-HOLD signals applied so far alternate BUY, SELL, BUY, ...:
\* the first is a BUY, no two BUYs are adjacent, no SELL comes while FLAT; and
\* the strategy is LONG exactly after a BUY.
C4_Alternates ==
    /\ \A k \in 1..Len(applied) : applied[k] = IF k % 2 = 1 THEN "BUY" ELSE "SELL"
    /\ position = (IF Len(applied) % 2 = 1 THEN "LONG" ELSE "NONE")

\* a session that has applied BUY, SELL, BUY
C4_Witness == Len(applied) = 3 /\ applied[3] = "BUY"

\* C17: in every reachable state of either driver, update_position called
\* with BUY and a price gives LONG with that entry price, with SELL gives FLAT
\* with no entry price, with HOLD gives the state unchanged; and the entry
\* price is set iff the position is LONG.
C17_PositionTransitions ==
    /\ \A price \in Prices :
          /\ update_position("BUY", price, position, entry_price) = <<"LONG", price>>
          /\ update_position("SELL", price, position, entry_price) = <<"NONE", 0>>
          /\ update_position("HOLD", price, position, entry_price)
                = <<position, entry_price>>
    /\ (entry_price # 0) <=> (position = "LONG")

\* FLAT again with no entry price after a BUY and a SELL were applied
C17_Witness ==
    /\ Len(applied) = 2 /\ applied[2] = "SELL"
    /\ position = "NONE" /\ entry_price = 0

\* ------------------------------------------------ claims on SpecReplay
\* C8: the secondary row the replay driver evaluates primary bar t with is not
\* in progress at t: it has closed (its open time plus the secondary interval)
\* by the time bar t closes, the latest instant "t's time" can mean.
C8_SecondaryClosed ==
    (mode = "replay" /\ Evaluated) => secondary_ts + Ratio <= primary_ts + 1

\* fast(i-1) <= slow(i-1) and fast(i) > slow(i), comparisons with an undefined
\* value being false
C20_CrossedUp(dfp, i) ==
    /\ i >= 1
    /\ Le(dfp.sma_fast[i], dfp.sma_slow[i])
    /\ Gt(dfp.sma_fast[i + 1], dfp.sma_slow[i + 1])

\* fast(i-1) >= slow(i-1) and fast(i) < slow(i)
C20_CrossedDown(dfp, i) ==
    /\ i >= 1
    /\ Ge(dfp.sma_fast[i], dfp.sma_slow[i])
    /\ Lt(dfp.sma_fast[i + 1], dfp.sma_slow[i + 1])

\* C20: for every row i of the replayed primary frame, check_sma_crossover is
\* BULLISH iff fast(i-1) <= slow(i-1) and fast(i) > slow(i), BEARISH iff
\* fast(i-1) >= slow(i-1) and fast(i) < slow(i), and NONE otherwise; it is NONE
\* when i < 1, when fast or slow is undefined at i, and when a previous-row
\* value is undefined.
C20_Crossover ==
    mode = "replay" =>
        LET dfp == CalcPrimary(df_primary, params)
        IN  \A i \in 0..(Len(df_primary) - 1) :
               LET c == check_sma_crossover(dfp, i)
               IN  /\ c \in {"BULLISH", "BEARISH", "NONE"}
                   /\ (c = "BULLISH") <=> C20_CrossedUp(dfp, i)
                   /\ (c = "BEARISH") <=> C20_CrossedDown(dfp, i)
                   /\ (i < 1) => c = "NONE"
                   /\ (dfp.sma_fast[i + 1].nan \/ dfp.sma_slow[i + 1].nan) => c = "NONE"
                   /\ (i >= 1 /\ (dfp.sma_fast[i].nan \/ dfp.sma_slow[i].nan)) => c = "NONE"

\* next() has evaluated a row where the fast SMA, equal to the slow SMA on the
\* row before, is above it: a BULLISH crossover; and the frame has a row whose
\* SMAs are defined while the slow SMA of the row before is not
C20_Witness ==
    /\ mode = "replay" /\ pc = "run" /\ signal # "NA" /\ primary_idx >= 1
    /\ LET dfp == CalcPrimary(df_primary, params)
       IN  /\ check_sma_crossover(dfp, primary_idx) = "BULLISH"
           /\ dfp.sma_fast[primary_idx].num * dfp.sma_slow[primary_idx].den
                 = dfp.sma_slow[primary_idx].num * dfp.sma_fast[primary_idx].den
           /\ \E i \in 1..(Len(df_primary) - 1) :
                 /\ ~dfp.sma_fast[i + 1].nan /\ ~dfp.sma_slow[i + 1].nan
                 /\ dfp.sma_slow[i].nan
                 /\ dfp.sma_fast[i + 1].num * dfp.sma_slow[i + 1].den
                       > dfp.sma_slow[i + 1].num * dfp.sma_fast[i + 1].den

\* C21: when the row i the replay is at is one where the fast SMA goes from
\* at-or-below the slow SMA at row i-1 to strictly above it at row i,
\* check_sma_crossover reports BULLISH at row i, not at row i-1, and not at
\* row i+1 (where fast(i) > slow(i) is the previous-row side).
C21_OneBarEvent ==
    (mode = "replay" /\ primary_idx >= 1) =>
        LET dfp == CalcPrimary(df_primary, params)
            i == primary_idx
        IN  C20_CrossedUp(dfp, i) =>
                /\ check_sma_crossover(dfp, i) = "BULLISH"
                /\ check_sma_crossover(dfp, i - 1) # "BULLISH"
                /\ (i + 1 < Len(df_primary)) =>
                      check_sma_crossover(dfp, i + 1) # "BULLISH"

\* next() has evaluated the row after a swap, with the fast SMA still above the
\* slow SMA on it
C21_Witness ==
    /\ mode = "replay" /\ pc = "run" /\ signal # "NA" /\ primary_idx >= 2
    /\ LET dfp == CalcPrimary(df_primary, params)
       IN  /\ C20_CrossedUp(dfp, primary_idx - 1)
           /\ Gt(dfp.sma_fast[primary_idx + 1], dfp.sma_slow[primary_idx + 1])
           /\ check_sma_crossover(dfp, primary_idx) = "NONE"

\* C22: for every index of the replayed secondary frame, and the indices just
\* outside it, get_trend_direction is UP iff the trend SMA is defined and the
\* close is above it, DOWN iff it is defined and the close is below it, and
\* NONE when the trend SMA is undefined, when the close equals it, and when the
\* index is outside the frame.
C22_TrendDirection ==
    mode = "replay" =>
        LET dfs == CalcSecondary(df_secondary, params)
            n == Len(df_secondary)
        IN  \A index \in (-1)..n :
               LET t == get_trend_direction(dfs, index)
                   inside == index >= 0 /\ index < n
                   sma == dfs.sma_trend[index + 1]
                   close == df_secondary[index + 1]
               IN  /\ t \in {"UP", "DOWN", "NONE"}
                   /\ (t = "UP") <=>
                         (inside /\ ~sma.nan /\ close * sma.den > sma.num)
                   /\ (t = "DOWN") <=>
                         (inside /\ ~sma.nan /\ close * sma.den < sma.num)
                   /\ ~inside => t = "NONE"
                   /\ (inside /\ sma.nan) => t = "NONE"
                   /\ (inside /\ ~sma.nan /\ close * sma.den = sma.num) => t = "NONE"

\* next() has evaluated a secondary row whose close equals a trend SMA taken
\* over two rows, and the frame also has a row whose trend SMA is undefined
C22_Witness ==
    /\ mode = "replay" /\ pc = "run" /\ signal # "NA" /\ secondary_idx >= 1
    /\ params.trend_sma = 2
    /\ LET dfs == CalcSecondary(df_secondary, params)
           sma == dfs.sma_trend[secondary_idx + 1]
       IN  /\ ~sma.nan /\ df_secondary[secondary_idx + 1] * sma.den = sma.num
           /\ get_trend_direction(dfs, secondary_idx) = "NONE"
           /\ dfs.sma_trend[1].nan

\* ------------------------------------------------- claims on SpecLive
\* C9: the rows the polling driver evaluates have ended by the time of the
\* evaluation, on both timeframes.
C9_EvaluatedClosed ==
    (mode = "live" /\ Evaluated) =>
        /\ primary_ts + 1 <= now
        /\ secondary_ts + Ratio <= now

OpenBuys == {k \in 1..Len(trades) : trades[k].side = "BUY" /\ ~trades[k].exit_time.some}

\* C10: in every reachable state of the live engine the ledger holds at most
\* one BUY record whose exit fields are unset.
C10_OneOpenBuy == Cardinality(OpenBuys) <= 1

\* C24: in every step of the live engine the ledger keeps its records in
\* their places (same order id, side, timestamp, entry price and quantity) and
\* does not shrink; a step in which the exchange accepts an order appends
\* exactly one record, carrying that order's id; every other step, an
\* iteration without an executed order included, appends none.
C24_AppendOnly ==
    [][mode = "live" =>
         /\ Len(trades') >= Len(trades)
         /\ \A k \in 1..Len(trades) :
               /\ trades'[k].order_id = trades[k].order_id
               /\ trades'[k].side = trades[k].side
               /\ trades'[k].timestamp = trades[k].timestamp
               /\ trades'[k].entry_price = trades[k].entry_price
               /\ trades'[k].quantity = trades[k].quantity
         /\ (next_order_id' # next_order_id) =>
               /\ Len(trades') = Len(trades) + 1
               /\ trades'[Len(trades')].order_id = next_order_id
         /\ (next_order_id' = next_order_id) => Len(trades') = Len(trades)]_vars

\* a session has executed a BUY and then a SELL, and the iteration after the
\* SELL is at its body: both records are in the ledger, in that order
C24_Witness ==
    /\ mode = "live" /\ pc = "iter" /\ Len(trades) = 2
    /\ trades[1].side = "BUY" /\ trades[1].order_id = 1
    /\ trades[2].side = "SELL" /\ trades[2].order_id = 2
    /\ applied = <<"BUY", "SELL">>

\* ------------------------------------------------ claims on SpecParity
\* C1: for one market, the same parameters and the same position, the signal
\* the polling driver computes when primary bar b has closed equals the signal
\* the replay driver computes for bar b (no signal counting as HOLD).
C1_Parity ==
    (mode = "parity" /\ pc = "compared") =>
        signal = (IF replay_signal(bar, position) = "NA" THEN "HOLD"
                  ELSE replay_signal(bar, position))

\* an iteration step in which the fetch failed (an exception or an empty
\* answer: no signal is computed) or the order failed (a BUY or SELL signal,
\* and the exchange accepted no order)
FetchFailedStep == mode = "live" /\ pc = "iter" /\ pc' = "loop" /\ signal' = "NA"
OrderFailedStep ==
    mode = "live" /\ pc = "iter" /\ signal' \in {"BUY", "SELL"}
                  /\ next_order_id' = next_order_id

\* C11: a live iteration whose fetch or order fails leaves the strategy
\* position, the entry price and the ledger exactly as they were, and the loop
\* goes on to its next test without the running flag being cleared.
C11_FailureKeepsState ==
    [][(FetchFailedStep \/ OrderFailedStep) =>
          /\ position' = position /\ entry_price' = entry_price
          /\ trades' = trades
          /\ pc' = "loop" /\ is_running' = is_running]_vars

\* a SELL whose order failed while LONG with an open BUY record in the ledger
C11_Witness ==
    /\ mode = "live" /\ pc = "loop" /\ signal = "SELL" /\ position = "LONG"
    /\ OpenBuys # {}

\* the wait of an iteration has returned (pc = "iter" in an iteration after the
\* first) and the stop flag is down: stop() was called during the sleep, or in
\* the instant after it, which leaves the engine in the same state
WokeStopped == mode = "live" /\ pc = "iter" /\ iteration > 1 /\ ~is_running

\* C12: when the sleep of an iteration ends with stop() requested, the loop
\* does not go into that iteration's body: no fetch (no step to the loop test
\* from the body), no signal, no order.
C12_NoWorkAfterStoppedSleep ==
    [][WokeStopped =>
          /\ pc' # "loop"
          /\ signal' = "NA"
          /\ next_order_id' = next_order_id /\ trades' = trades]_vars

\* the BUYs the session has executed
BuysApplied == Cardinality({k \in 1..Len(applied) : applied[k] = "BUY"})
SellsApplied == Cardinality({k \in 1..Len(applied) : applied[k] = "SELL"})
BoundReached == max_trades # 0 /\ trade_count >= max_trades

C15_CompleteTrades ==
    (mode = "live" /\ pc = "iter" /\ BoundReached) =>
        /\ BuysApplied = max_trades
        /\ SellsApplied = max_trades
        /\ position = "NONE"

\* ------------------------------------------------- claims on SpecWait
\* C16: _wait_for_candle_close returns at the first boundary of the primary
\* timeframe that is at least 5 seconds after the time it was entered: the
\* wake-up time is a multiple of the timeframe's duration, at least 5 seconds
\* and less than one duration plus 5 seconds later.
C16_WakesOnBoundary ==
    [][(mode = "wait" /\ pc = "idle" /\ pc' = "woke") =>
          /\ utcnow' % parse_timeframe_to_seconds(primary_tf) = 0
          /\ utcnow' - utcnow >= 5
          /\ utcnow' - utcnow < parse_timeframe_to_seconds(primary_tf) + 5]_vars

\* C40: for every 'm' or 'h' primary timeframe and every time of entry, the
\* duration _wait_for_candle_close sleeps is at least 5 seconds and at most
\* one primary interval plus 4 seconds: never zero or negative.
C40_SleepDuration ==
    [][(mode = "wait" /\ pc = "idle" /\ pc' = "woke" /\ primary_tf.unit \in {"m", "h"}) =>
          /\ utcnow' - utcnow >= 5
          /\ utcnow' - utcnow <= parse_timeframe_to_seconds(primary_tf) + 4
          /\ utcnow' - utcnow > 0]_vars

\* a 15m wait has woken at 0:30:00; entered at 0:14:56 it slept 904 seconds,
\* the interval plus 4
C40_Witness ==
    /\ mode = "wait" /\ pc = "woke"
    /\ primary_tf = [n |-> 15, unit |-> "m"]
    /\ utcnow = 30 * 60

\* ----------------------------------------------- claims on SpecLiveFair
\* stop() has been requested while start() runs.  The model's clock ends at
\* MaxTime: a sleep that would end after it is outside the model.
StopRequested ==
    /\ mode = "live" /\ pc # "idle" /\ ~is_running
    /\ pc = "sleep" => now < MaxTime

\* C13: once stop() has been requested, start() eventually returns with
\* is_running False; the loop test taken with the flag down begins no
\* iteration; and is_running is False whenever start() is not running.
C13_StopReturns ==
    /\ StopRequested ~> (pc = "idle" /\ ~is_running)
    /\ [][(mode = "live" /\ pc = "loop" /\ ~is_running) => pc' = "idle"]_vars
    /\ []((mode = "live" /\ pc = "idle") => ~is_running)

\* stop() requested during the sleep of an iteration, with a position open
C13_Witness ==
    /\ mode = "live" /\ pc = "sleep" /\ ~is_running /\ now < MaxTime
    /\ position = "LONG"

\* ------------------------------------------- claims on Spec (sessions)
\* C19: when a session has just started (LiveTradingEngine.start has reached
\* its loop, or BacktestEngine.run its first row) and has evaluated nothing yet,
\* the strategy is FLAT with no entry price, whatever the session before it
\* ended with.
C19_SessionStartsFlat ==
    ((pc = "loop" /\ iteration = 0) \/ (pc = "run" /\ bar = 0)) =>
        (position = "NONE" /\ entry_price = 0)

\* a polling session has started after a session that ended in a position
C19_Witness ==
    /\ mode = "live" /\ pc = "loop" /\ iteration = 0
    /\ position = "NONE" /\ entry_price = 0
    /\ Len(trades) = 1 /\ trades[1].side = "BUY"

\* ----------------------------------------------- claims on SpecLedger
\* C23: a step in which a SELL record is appended fills, in the most recent BUY
\* record whose exit was unset, exit_time (the SELL's timestamp), exit_price,
\* pnl = (exit_price - entry_price) * quantity and return_pct =
\* (exit_price - entry_price) / entry_price * 100, and leaves every other
\* existing record as it was.
C23_SellClosesLastOpenBuy ==
    [][(/\ mode = "ledger"
        /\ Len(trades') = Len(trades) + 1
        /\ trades'[Len(trades')].side = "SELL") =>
          LET n == Len(trades)
              sell == trades'[n + 1]
              exit_price == sell.exit_price.v
              open == {k \in 1..n : trades[k].side = "BUY" /\ ~trades[k].exit_time.some}
          IN  /\ open # {}
              /\ \E k \in open :
                    /\ \A m \in open : m <= k
                    /\ trades'[k].exit_time = Some(sell.timestamp)
                    /\ trades'[k].exit_price = Some(exit_price)
                    /\ trades'[k].pnl
                          = Some((exit_price - trades[k].entry_price) * quantity)
                    /\ ~trades'[k].return_pct.nan
                    /\ trades'[k].return_pct.num * trades[k].entry_price
                          = (exit_price - trades[k].entry_price) * 100
                               * trades'[k].return_pct.den
                    /\ trades'[k].timestamp = trades[k].timestamp
                    /\ trades'[k].side = "BUY"
                    /\ trades'[k].entry_price = trades[k].entry_price
                    /\ trades'[k].quantity = trades[k].quantity
                    /\ trades'[k].order_id = trades[k].order_id
                    /\ \A m \in (1..n) \ {k} : trades'[m] = trades[m]]_vars

\* a SELL has closed the later of two open BUY records, at another price than
\* its entry, and the earlier one is still open
C23_Witness ==
    /\ mode = "ledger" /\ Len(trades) = 3
    /\ trades[1].side = "BUY" /\ ~trades[1].exit_time.some
    /\ trades[2].side = "BUY" /\ trades[2].exit_time.some
    /\ trades[2].exit_price.v # trades[2].entry_price
    /\ trades[3].side = "SELL"

\* ------------------------------------------------ claims on SpecMatch
LoadedBt == load_trades(bt_file)
LoadedLv == load_trades(lv_file)
Matched == {k \in 1..Len(results.details) : results.details[k].status = "MATCHED"}

\* C25: in the result validate() returns, every MATCHED entry pairs a backtest
\* row and a live row of the same side whose timestamps differ by at most the
\* window, and no live row and no backtest row is in two MATCHED entries.
C25_OneToOne ==
    (mode = "match" /\ pc = "returned") =>
        /\ \A k \in Matched :
              LET d == results.details[k]
              IN  /\ d.bt_idx \in 1..Len(LoadedBt) /\ d.lv_idx \in 1..Len(LoadedLv)
                  /\ LoadedBt[d.bt_idx].side = LoadedLv[d.lv_idx].side
                  /\ d.side = LoadedBt[d.bt_idx].side
                  /\ d.bt_time = LoadedBt[d.bt_idx].timestamp
                  /\ d.lv_time = LoadedLv[d.lv_idx].timestamp
                  /\ d.lv_time - d.bt_time <= candle_window
                  /\ d.bt_time - d.lv_time <= candle_window
        /\ \A k1, k2 \in Matched :
              k1 # k2 => /\ results.details[k1].lv_idx # results.details[k2].lv_idx
                         /\ results.details[k1].bt_idx # results.details[k2].bt_idx

\* two pairs, the live row of the first being one the second backtest row
\* could have been paired with too
C25_Witness ==
    /\ mode = "match" /\ pc = "returned" /\ Cardinality(Matched) = 2
    /\ \E k1, k2 \in Matched :
          /\ k1 < k2
          /\ results.details[k2].side = results.details[k1].side
          /\ results.details[k2].bt_time - results.details[k1].lv_time <= candle_window
          /\ results.details[k1].lv_time - results.details[k2].bt_time <= candle_window

\* the live rows used by the entries before entry i
C26_UsedBefore(i) == {results.details[k].lv_idx : k \in {m \in Matched : m < i}}

\* the live rows backtest row i can be paired with at its turn
C26_Candidates(i) ==
    {j \in (1..Len(LoadedLv)) \ C26_UsedBefore(i) :
        /\ LoadedLv[j].side = LoadedBt[i].side
        /\ LoadedLv[j].timestamp - LoadedBt[i].timestamp <= candle_window
        /\ LoadedBt[i].timestamp - LoadedLv[j].timestamp <= candle_window}

\* C26: the i-th entry is for the i-th backtest row; it is MATCHED with the
\* lowest-placed live row that is unused at its turn, has the same side and lies
\* within the window, and UNMATCHED_BACKTEST only if there is no such row.  Two
\* single-BUY ledgers give 1 match and 0 unmatched within the window, and 0
\* matches and 1 unmatched on each side beyond it.
C26_GreedyFirstAvailable ==
    (mode = "match" /\ pc = "returned") =>
        /\ Len(results.details) = Len(LoadedBt)
        /\ \A i \in 1..Len(LoadedBt) :
              LET d == results.details[i]
                  c == C26_Candidates(i)
              IN  /\ d.bt_idx = i
                  /\ (c = {}) <=> (d.status = "UNMATCHED_BACKTEST")
                  /\ (c # {}) => /\ d.status = "MATCHED"
                                 /\ d.lv_idx \in c
                                 /\ \A j \in c : d.lv_idx <= j
        /\ (/\ Len(LoadedBt) = 1 /\ Len(LoadedLv) = 1
            /\ LoadedBt[1].side = "BUY" /\ LoadedLv[1].side = "BUY") =>
              IF Abs(LoadedBt[1].timestamp - LoadedLv[1].timestamp) <= candle_window
              THEN /\ results.matched_trades = 1
                   /\ results.unmatched_backtest = 0 /\ results.unmatched_live = 0
              ELSE /\ results.matched_trades = 0
                   /\ results.unmatched_backtest = 1 /\ results.unmatched_live = 1

\* a backtest row has been paired with an earlier live row one candle away
\* although a later unused live row of its side has its very timestamp
C26_Witness ==
    /\ mode = "match" /\ pc = "returned"
    /\ \E i \in Matched :
          /\ results.details[i].time_diff_sec > 0
          /\ \E j \in C26_Candidates(i) :
                /\ j > results.details[i].lv_idx
                /\ LoadedLv[j].timestamp = LoadedBt[i].timestamp

\* C27: in the result validate() returns, matched + unmatched_backtest is the
\* number of backtest rows, matched + unmatched_live the number of live rows,
\* there is one detail entry per backtest row, and the report prints a match
\* rate exactly when there are backtest rows: matched / backtest rows, as a
\* percentage to the nearest hundredth.
C27_CountsConsistent ==
    (mode = "match" /\ pc = "returned") =>
        /\ results.backtest_trades = Len(bt_file.rows)
        /\ results.live_trades = Len(lv_file.rows)
        /\ results.matched_trades + results.unmatched_backtest = Len(bt_file.rows)
        /\ results.matched_trades + results.unmatched_live = Len(lv_file.rows)
        /\ results.matched_trades = Cardinality(Matched)
        /\ Len(results.details) = Len(bt_file.rows)
        /\ results.match_rate.some <=> (Len(bt_file.rows) > 0)
        /\ results.match_rate.some =>
              LET n == Len(bt_file.rows)
              IN  2 * Abs(results.match_rate.v * n - results.matched_trades * 10000) <= n

\* one of three backtest rows is matched (33.33%), and live rows are left over
C27_Witness ==
    /\ mode = "match" /\ pc = "returned"
    /\ results.backtest_trades = 3 /\ results.matched_trades = 1
    /\ results.unmatched_backtest = 2 /\ results.unmatched_live = 1
    /\ results.match_rate = Some(3333)

\* C30: validate() returns a result only when both ledgers hold trade records;
\* with a ledger file missing or without records it raises.
C30_EmptyLedgerFatal ==
    (mode = "match" /\ pc = "returned") =>
        (Len(bt_file.rows) > 0 /\ Len(lv_file.rows) > 0)

\* ---------------------------------------------- claims on SpecStartup
\* C28: an engine whose primary timeframe has a unit it does not know never
\* enters the trading loop: start() leaves it idle, with no iteration, no
\* evaluation and no order.
C28_UnknownUnitFatal ==
    (mode = "live" /\ primary_tf \in UnknownTimeframes) =>
        /\ pc = "idle" /\ ~is_running
        /\ iteration = 0 /\ signal = "NA" /\ next_order_id = 1 /\ trades = <<>>

\* ------------------------------------------------ claims on SpecFetch
\* the open times before end_ms for a timeframe (the loop of
\* fetch_historical_data stops at current_start >= end_ms, so the candle that
\* opens at end_ms itself is fetched or not with the batch sizes)
C29_WholeRange(tf) == {t \in 0..(end_ms - 1) : t % candle_length(tf) = 0}

C29_Fetched(tf) == {all_data[tf][k] : k \in 1..Len(all_data[tf])}

\* C29: the script reaches the backtest only if no batch request failed, and
\* then with every candle of both ranges.
C29_FailedFetchAborts ==
    (mode = "fetch" /\ pc = "backtest") =>
        /\ batch_errors = 0
        /\ C29_WholeRange("primary") \subseteq C29_Fetched("primary")
        /\ C29_WholeRange("secondary") \subseteq C29_Fetched("secondary")

\* --------------------------------------- claims on SpecReplay: indicators
\* no row of the window of rsi_period rows ending at row k closes below the
\* row before it (row 1 has no row before it: its delta is NaN, a loss of 0)
C31_NoLosingBar(k) ==
    \A j \in (k - params.rsi_period + 1)..k : j > 1 => df_primary[j] >= df_primary[j - 1]

\* C31: whenever the average loss over the trailing RSI window is 0 (a full
\* window with no losing bar), the RSI of the evaluated bar is exactly 100 and
\* not NaN.  The code returns NaN for a window of equal closes (0/0).
C31_ZeroLossSaturates ==
    (Evaluated /\ primary_idx + 1 >= params.rsi_period /\ C31_NoLosingBar(primary_idx + 1))
        => RsiNow = Num(100)

\* column `col` of a frame is the moving average of period P of `close`:
\* rows are numbered from 0 as in the code, row i is element i + 1
C32_IsMovingAverage(close, col, P) ==
    /\ Len(col) = Len(close)
    /\ \A i \in 0..(Len(close) - 1) :
          IF i < P - 1 THEN col[i + 1].nan
          ELSE /\ ~col[i + 1].nan
               /\ col[i + 1].num * P = col[i + 1].den * SumRange(close, i - P + 2, i + 1)

\* C32: each moving average column computed by calculate_indicators has the
\* length of its input, is undefined at every index i < P - 1, and at every
\* index i >= P - 1 equals the mean of close[i-P+1..i].
C32_MovingAverage ==
    pc = "run" =>
        /\ C32_IsMovingAverage(df_primary, PrimaryFrame.sma_fast, params.fast_sma)
        /\ C32_IsMovingAverage(df_primary, PrimaryFrame.sma_slow, params.slow_sma)
        /\ C32_IsMovingAverage(df_secondary, SecondaryFrame.sma_trend, params.trend_sma)

\* period 3: rows 0 and 1 undefined, row 2 the mean 4/3 of closes 1, 1, 2
C32_Witness ==
    /\ pc = "run" /\ params.slow_sma = 3
    /\ SubSeq(df_primary, 1, 3) = <<1, 1, 2>>
    /\ PrimaryFrame.sma_slow[1].nan /\ PrimaryFrame.sma_slow[2].nan
    /\ PrimaryFrame.sma_slow[3] = Rat(4, 3)

\* C33: the documented entry rule: generate_signal returns BUY only when a
\* bullish crossover and an uptrend and RSI < overbought all hold at the
\* evaluated bar.  The code's condition is `A or B and C`.
C33_DocumentedEntryRule ==
    (Evaluated /\ signal = "BUY") =>
        (CrossoverNow = "BULLISH" /\ TrendNow = "UP" /\ RsiBelowOverbought)

\* --------------------------------------------------- claims on SpecPage
\* C34: pagination makes progress and terminates.  A pass that fetched a
\* batch sets the next request's start to the last returned bar's time + 1,
\* which is strictly greater than the start before and at most end + 1; the
\* loop is left only when the start has reached the range end, the provider
\* returned an empty batch, or a batch failed; and every fetch returns.
C34_PaginationTerminates ==
    /\ [][(pc \in {"primary", "secondary"} /\ pc' = pc) =>
            LET fetched == all_data'[pc]
            IN  /\ Len(fetched) > Len(all_data[pc])
                /\ current_start' = fetched[Len(fetched)] + 1
                /\ current_start' > current_start
                /\ current_start' <= end_ms + 1]_vars
    /\ [][(pc \in {"primary", "secondary"} /\ pc' = "returned") =>
            (PageRangeDone(pc) \/ PageEmpty(pc) \/ PageFailed(pc))]_vars
    /\ <>(pc = "returned")

\* three requests, each starting one past the last bar of the one before,
\* until the start has passed the end of the range
C34_Witness ==
    /\ pc = "returned" /\ batch_errors = 0
    /\ end_ms = 4 /\ all_data.primary = <<0, 1, 2, 3, 4>> /\ current_start = 5

\* ------------------------------- claims on SpecReplay: secondary lookup
\* rows of the secondary frame whose open time is <= the open time of primary row i
C35_NotAfter(i) ==
    {j \in 0..(Len(df_secondary) - 1) :
        secondary_time(j, Ratio, sec_first) <= primary_time(i)}

C36_HarnessHolds ==
    IF bt_order = "BUY" THEN TRUE
    ELSE IF bt_order = "CLOSE" THEN FALSE
    ELSE bt_position

\* C36: after every bar of the replay the strategy is LONG if and only if the
\* harness holds an open position, whatever the harness does with a buy
\* request.  A buy the harness cancels leaves the strategy LONG and the
\* harness flat for the rest of the run.
C36_PositionsAgree ==
    (mode = "replay" /\ pc = "run" /\ bar > 0) => (position = "LONG" <=> C36_HarnessHolds)

\* -------------------------------------------------- claims on SpecSession
C37_Count(side) == Cardinality({k \in 1..Len(trades) : trades[k].side = side})

\* C37: within one session of a new live engine the strategy is LONG if and
\* only if the ledger holds exactly one open BUY record (and holds none when
\* FLAT), and the number of BUY records minus the number of SELL records is 1
\* when LONG and 0 when FLAT.
C37_LedgerTracksPosition ==
    /\ position = "LONG" <=> Cardinality(OpenBuys) = 1
    /\ position = "NONE" <=> Cardinality(OpenBuys) = 0
    /\ C37_Count("BUY") - C37_Count("SELL") = (IF position = "LONG" THEN 1 ELSE 0)

\* FLAT again after a round trip: a closed BUY and its SELL, no open BUY
C37_Witness ==
    /\ pc = "loop" /\ position = "NONE"
    /\ Len(trades) = 2 /\ trades[1].side = "BUY" /\ trades[1].exit_time.some
    /\ trades[2].side = "SELL"
    /\ applied = <<"BUY", "SELL">>

\* ---------------------------------------------------- claims on SpecRuns
\* C38: after run() returns the engine's ledger holds exactly the records of
\* that run, one BUY record followed by one SELL record per round trip, in
\* order, and no record of an earlier run.  A run without trades leaves the
\* ledger of the run before it in place.
C38_LedgerOfThisRun ==
    (mode = "runs" /\ bt_results.some) =>
        LET td == bt_results.v
        IN  /\ Len(bt_trades) = 2 * Len(td)
            /\ \A k \in 1..Len(td) :
                  /\ bt_trades[2 * k - 1].side = "BUY"
                  /\ bt_trades[2 * k - 1].timestamp = td[k].EntryTime
                  /\ bt_trades[2 * k].side = "SELL"
                  /\ bt_trades[2 * k].timestamp = td[k].ExitTime

\* ------------------------------------------------- claims on SpecPairing
\* pairs (backtest row, live row) of the same side not more than W apart
C39_Compatible(df_bt, df_lv, W) ==
    {p \in (1..Len(df_bt)) \X (1..Len(df_lv)) :
        /\ df_bt[p[1]].side = df_lv[p[2]].side
        /\ Abs(df_bt[p[1]].timestamp - df_lv[p[2]].timestamp) <= W}

\* the 1:1 pairings: no backtest row and no live row in two pairs
C39_Pairings(df_bt, df_lv, W) ==
    {M \in SUBSET C39_Compatible(df_bt, df_lv, W) :
        \A p \in M, q \in M : p # q => (p[1] # q[1] /\ p[2] # q[2])}

\* C39: on ledgers sorted by timestamp, the number of matches compare_trades
\* reports equals the size of a largest 1:1 pairing of same-side records
\* within the window.
C39_GreedyIsMaximum ==
    (mode = "match" /\ pc = "returned") =>
        LET all == C39_Pairings(LoadedBt, LoadedLv, candle_window)
        IN  /\ \A M \in all : Cardinality(M) <= results.matched_trades
            /\ \E M \in all : Cardinality(M) = results.matched_trades

\* both backtest rows fit the second live row and only the first of them fits
\* the first live row: two matches, none lost to the order
C39_Witness ==
    /\ mode = "match" /\ pc = "returned" /\ candle_window = 1
    /\ LoadedBt = <<[timestamp |-> 1, side |-> "BUY"], [timestamp |-> 2, side |-> "BUY"]>>
    /\ LoadedLv = <<[timestamp |-> 0, side |-> "BUY"], [timestamp |-> 1, side |-> "BUY"]>>
    /\ results.matched_trades = 2

====
